---- MODULE Spec2Model ----
(***************************************************************************)
(* Verification model of the distributed WebAssembly executor:             *)
(*   - the worker module cache (program/src/session/cache.rs),             *)
(*   - the worker chunk assembler (program/src/session/transfer.rs),       *)
(*   - the wire codec (protocol/src/lib.rs),                               *)
(*   - the framed receive loops (server network.rs, program session),      *)
(*   - the dispatcher world and its per-tick passes (server/src/systems).  *)
(* Each part has its own specification over the shared variables; the      *)
(* variables a specification does not use stay at their idle values.       *)
(***************************************************************************)
EXTENDS Integers, Sequences, FiniteSets, TLC

VARIABLES
    cache,      \* ModuleCache: [entries, capacity, allocated]
    cacheRes,   \* result of the last cache call: [op, key, ok, err]
    evictLog,   \* victims of the last put, each with the entries it was chosen from
    transfer,   \* ModuleTransfer of the assembler: [name, size, chunk_size, total_chunks, received]
    asmRes,     \* the last add_chunk call: [op, index, len, dup, ok, err]
    msg,        \* codec: the Message handed to serialize
    host,       \* codec: byte order of the machine running the codec
    wireBytes,  \* codec: the serialized frame
    frSent,     \* framing: the messages the peer sent, in order
    frWire,     \* framing: bytes of those frames not yet returned by a read
    frIncoming, \* framing: the receiver's incoming buffer
    frEvents,   \* framing: the messages the receiver dispatched, in order
    frRole,     \* framing: "server" (process_inbound) or "worker" (process_io)
    frStatus,   \* framing: the receiver's status after the last read
    sessions,   \* dispatcher: session entity -> [alive, status, retries, message_queue, outgoing, modules, device_ram]
    tasks,      \* dispatcher: task entity -> [phase, assigned_device, result, transfer]
    pc,         \* dispatcher: the pass of the tick loop that runs next
    tick,       \* dispatcher: number of ticks completed
    panicked,   \* dispatcher: None, or the operation whose panic ended the tick loop
    resultsRead, \* dispatcher: session -> the ClientResult the last inbound pass took from it while Occupied
    cacheHit,   \* dispatcher: tasks whose record took an AckTask listing the module before any chunk was enqueued
    chunkSent,  \* dispatcher: tasks for which a ServerModule was enqueued
    workerIn,   \* honest workers: session -> the messages written to the worker and not yet handled
    workerOut,  \* honest workers: session -> the messages the worker sent that no read returned yet
    workerSt,   \* honest workers: session -> [cache, task, name, received]
    outWire,    \* outbound: session -> the bytes its stream accepted, in order
    outLog,     \* outbound: session -> the messages pushed on its message_queue, in order
    queued_tasks, \* scheduler heap: [heap, popped, bound, devices]: the TaskRecords still in the heap, those popped, those bound, the devices left
    self,       \* worker: the Session of program/src/session: [state, module_cache, active_tasks, events, outgoing, at, read, ack]
    lifeHist,   \* lifecycle: session -> [age, passes]: the heartbeat age the last pass saw, the passes since it became Zombie
    decoded     \* codec: [stage, from, res]: what decode returned for the first `from` bytes

cacheVars == <<cache, cacheRes, evictLog>>
asmVars == <<transfer, asmRes>>
codecVars == <<msg, host, wireBytes, decoded>>
frameVars == <<frSent, frWire, frIncoming, frEvents, frRole, frStatus>>
histVars == <<cacheHit, chunkSent>>
honestVars == <<workerIn, workerOut, workerSt>>
outVars == <<outWire, outLog>>
dispVars == <<sessions, tasks, pc, tick, panicked, resultsRead, histVars, honestVars, lifeHist, outVars, self, queued_tasks>>

vars == <<cache, cacheRes, evictLog, transfer, asmRes, msg, host, wireBytes, decoded,
          frSent, frWire, frIncoming, frEvents, frRole, frStatus,
          sessions, tasks, pc, tick, panicked, resultsRead, histVars, honestVars, lifeHist, outVars, self, queued_tasks>>

None == "None"

(***************************************************************************)
(* Bounds of the model.                                                    *)
(***************************************************************************)
\* usage counters are capped (the code lets them grow without limit)
MaxAccess == 4
\* largest module handed to the assembler, in bytes
MaxModuleSize == 5
\* largest chunk size of a module descriptor
MaxChunkSize == 2
\* longest parameter / result vector of a message
MaxParams == 2
\* number of frames the peer sends in the framing specification
MaxFrames == 3
\* size in bytes and chunk size of the module the dispatcher distributes
ServerModuleSize == 3
ServerChunkSize == 2
\* failed writes in a row the model lets one session see
MaxWriteErrors == 1
\* ticks of the dispatcher loop that are explored (the loop itself never ends)
MaxTicks == 2

(***************************************************************************)
(* Worker module cache.                                                    *)
(***************************************************************************)
\* capacity used by the cache's own tests
TestCapacity == 15

\* BTreeMap<String, CacheEntry> iterates in key order
KeyOrder == <<"k1", "k2", "k3">>
Keys == {KeyOrder[i] : i \in 1..Len(KeyOrder)}

\* sizes handed to put: empty, the sizes of the eviction tests, one above capacity
PutSizes == {0, 2, 5, 10, TestCapacity + 1}
\* (offset, length) of the slices handed to put_slice
Slices == {<<0, 5>>, <<1, 5>>, <<0, 10>>}
FillBytes == {1}

Zeros(n) == [i \in 1..n |-> 0]
Fill(n, b) == [i \in 1..n |-> b]

\* ModuleCache::new
new_cache(capacity) == [entries |-> << >>, capacity |-> capacity, allocated |-> 0]

Remove(entries, key) == [k \in (DOMAIN entries) \ {key} |-> entries[k]]
Insert(entries, key, e) == [k \in (DOMAIN entries) \cup {key} |-> IF k = key THEN e ELSE entries[k]]

\* the keys present, in iteration order
KeysInOrder(entries) == SelectSeq(KeyOrder, LAMBDA k : k \in DOMAIN entries)

\* mutant of ScoreCmp: the comparison reversed
ScoreCmpReversed(a, b) ==
    LET a_score == a.access * a.access * Len(b.data)
        b_score == b.access * b.access * Len(a.data)
    IN  IF a_score > b_score THEN "Less" ELSE IF a_score < b_score THEN "Greater" ELSE "Equal"

\* the comparison closure of min_by: a_score.cmp(&b_score)
ScoreCmp(a, b) ==
    LET a_score == a.access * a.access * Len(b.data)
        b_score == b.access * b.access * Len(a.data)
    IN  IF a_score < b_score THEN "Less" ELSE IF a_score > b_score THEN "Greater" ELSE "Equal"

\* Iterator::min_by: a left fold that keeps the earlier element unless it is Greater
RECURSIVE MinByFold(_, _, _)
MinByFold(entries, acc, rest) ==
    IF rest = << >> THEN acc
    ELSE LET y == Head(rest)
         IN  MinByFold(entries,
                       IF ScoreCmp(entries[acc], entries[y]) = "Greater" THEN y ELSE acc,
                       Tail(rest))

\* the victim of one eviction round (None when the cache is empty)
Victim(entries) ==
    LET ks == KeysInOrder(entries)
    IN  IF ks = << >> THEN None ELSE MinByFold(entries, Head(ks), Tail(ks))

\* mutant of EvictLoop: evicts while the free space is not more than the size
RECURSIVE EvictLoopEager(_, _, _, _, _)
EvictLoopEager(entries, allocated, capacity, size, log) ==
    IF capacity - allocated <= size
    THEN LET v == Victim(entries)
         IN  IF v # None
             THEN EvictLoopEager(Remove(entries, v), allocated - Len(entries[v].data), capacity,
                                 size, Append(log, [victim |-> v, before |-> entries]))
             ELSE [entries |-> entries, allocated |-> allocated, log |-> log]
    ELSE [entries |-> entries, allocated |-> allocated, log |-> log]

\* the while loop of put: evict until the free space suffices or nothing is left
RECURSIVE EvictLoop(_, _, _, _, _)
EvictLoop(entries, allocated, capacity, size, log) ==
    IF capacity - allocated < size
    THEN LET v == Victim(entries)
         IN  IF v # None
             THEN EvictLoop(Remove(entries, v), allocated - Len(entries[v].data), capacity, size,
                            Append(log, [victim |-> v, before |-> entries]))
             ELSE [entries |-> entries, allocated |-> allocated, log |-> log]
    ELSE [entries |-> entries, allocated |-> allocated, log |-> log]

\* mutant of put: the bytes of the replaced entry still count as allocated
put_keep_allocated(c, key, size) ==
    LET had == key \in DOMAIN c.entries
        e0 == IF had THEN Remove(c.entries, key) ELSE c.entries
        ev == EvictLoop(e0, c.allocated, c.capacity, size, << >>)
    IN  IF size <= c.capacity - ev.allocated
        THEN [cache |-> [entries |-> Insert(ev.entries, key, [data |-> Zeros(size), access |-> 1]),
                         capacity |-> c.capacity,
                         allocated |-> ev.allocated + size],
              ok |-> TRUE, err |-> None, log |-> ev.log]
        ELSE [cache |-> [entries |-> ev.entries, capacity |-> c.capacity, allocated |-> ev.allocated],
              ok |-> FALSE, err |-> "CacheFull", log |-> ev.log]

\* ModuleCache::put: [cache, ok, err, log]
put(c, key, size) ==
    LET had == key \in DOMAIN c.entries
        e0 == IF had THEN Remove(c.entries, key) ELSE c.entries
        a0 == IF had THEN c.allocated - Len(c.entries[key].data) ELSE c.allocated
        ev == EvictLoop(e0, a0, c.capacity, size, << >>)
    IN  IF size <= c.capacity - ev.allocated
        THEN [cache |-> [entries |-> Insert(ev.entries, key, [data |-> Zeros(size), access |-> 1]),
                         capacity |-> c.capacity,
                         allocated |-> ev.allocated + size],
              ok |-> TRUE, err |-> None, log |-> ev.log]
        ELSE [cache |-> [entries |-> ev.entries, capacity |-> c.capacity, allocated |-> ev.allocated],
              ok |-> FALSE, err |-> "CacheFull", log |-> ev.log]

\* entry.data.resize(end, 0) followed by copy_from_slice
WriteAt(data, offset, bytes) ==
    LET end == offset + Len(bytes)
        n == IF end > Len(data) THEN end ELSE Len(data)
    IN  [i \in 1..n |-> IF i > offset /\ i <= end THEN bytes[i - offset]
                        ELSE IF i <= Len(data) THEN data[i] ELSE 0]

\* mutant of put_slice: the slot is resized without the capacity check
put_slice_unchecked(c, key, offset, bytes) ==
    IF key \notin DOMAIN c.entries
    THEN [cache |-> c, ok |-> FALSE, err |-> "CacheEntryNotFound"]
    ELSE LET entry == c.entries[key]
             end == offset + Len(bytes)
             required == IF end > Len(entry.data) THEN end - Len(entry.data) ELSE 0
         IN  [cache |-> [entries |-> Insert(c.entries, key,
                                            [data |-> WriteAt(entry.data, offset, bytes),
                                             access |-> entry.access + 1]),
                         capacity |-> c.capacity,
                         allocated |-> c.allocated + required],
              ok |-> TRUE, err |-> None]

\* ModuleCache::put_slice: [cache, ok, err]
put_slice(c, key, offset, bytes) ==
    IF key \notin DOMAIN c.entries
    THEN [cache |-> c, ok |-> FALSE, err |-> "CacheEntryNotFound"]
    ELSE LET entry == c.entries[key]
             end == offset + Len(bytes)
             grows == end > Len(entry.data)
             required == IF grows THEN end - Len(entry.data) ELSE 0
         IN  IF grows /\ c.allocated + required > c.capacity
             THEN [cache |-> c, ok |-> FALSE, err |-> "CacheFull"]
             ELSE [cache |-> [entries |-> Insert(c.entries, key,
                                                 [data |-> WriteAt(entry.data, offset, bytes),
                                                  access |-> entry.access + 1]),
                              capacity |-> c.capacity,
                              allocated |-> c.allocated + required],
                   ok |-> TRUE, err |-> None]

\* ModuleCache::get: [cache, found, data]
get(c, key) ==
    IF key \in DOMAIN c.entries
    THEN [cache |-> [c EXCEPT !.entries = Insert(c.entries, key,
                                                 [c.entries[key] EXCEPT !.access = @ + 1])],
          found |-> TRUE, data |-> c.entries[key].data]
    ELSE [cache |-> c, found |-> FALSE, data |-> << >>]

\* LruCache::find_removal_candidate: a fold that replaces the accumulator only
\* when the current entry's cross product is strictly smaller
RECURSIVE RemovalFold(_, _, _)
RemovalFold(entries, acc, rest) ==
    IF rest = << >> THEN acc
    ELSE LET k == Head(rest)
             current_score == entries[k].access * entries[k].access * Len(entries[acc].data)
             acc_score == entries[acc].access * entries[acc].access * Len(entries[k].data)
         IN  RemovalFold(entries, IF current_score < acc_score THEN k ELSE acc, Tail(rest))

find_removal_candidate(entries) ==
    LET ks == KeysInOrder(entries)
    IN  IF ks = << >> THEN None ELSE RemovalFold(entries, Head(ks), Tail(ks))

\* ModuleCache::contains_key
contains_key(c, key) == key \in DOMAIN c.entries

\* sum of the byte lengths of the stored entries
RECURSIVE SumLen(_, _)
SumLen(entries, ks) ==
    IF ks = {} THEN 0
    ELSE LET k == CHOOSE x \in ks : TRUE
         IN  Len(entries[k].data) + SumLen(entries, ks \ {k})

StoredBytes(c) == SumLen(c.entries, DOMAIN c.entries)

AccessRoom(c, key) == key \in DOMAIN c.entries => c.entries[key].access < MaxAccess

CacheStart ==
    /\ cache = new_cache(TestCapacity)
    /\ cacheRes = [op |-> "new", key |-> None, ok |-> TRUE, err |-> None]
    /\ evictLog = << >>

NoAsmRes == [op |-> "none", index |-> 0, len |-> 0, dup |-> FALSE, ok |-> FALSE, err |-> None]

AsmIdle ==
    /\ transfer = None
    /\ asmRes = NoAsmRes

CodecIdle ==
    /\ msg = None
    /\ host = None
    /\ wireBytes = << >>
    /\ decoded = [stage |-> "idle"]

FrameIdle ==
    /\ frSent = << >>
    /\ frWire = << >>
    /\ frIncoming = << >>
    /\ frEvents = << >>
    /\ frRole = None
    /\ frStatus = None

DispIdle ==
    /\ sessions = << >>
    /\ tasks = << >>
    /\ pc = None
    /\ tick = 0
    /\ panicked = None
    /\ resultsRead = << >>
    /\ cacheHit = {}
    /\ chunkSent = {}
    /\ workerIn = << >>
    /\ workerOut = << >>
    /\ workerSt = << >>
    /\ lifeHist = << >>
    /\ outWire = << >>
    /\ outLog = << >>
    /\ self = None
    /\ queued_tasks = None

CacheInit == CacheStart /\ AsmIdle /\ CodecIdle /\ FrameIdle /\ DispIdle

Put ==
    \E key \in Keys, size \in PutSizes :
        LET r == put(cache, key, size)
        IN  /\ cache' = r.cache
            /\ cacheRes' = [op |-> "put", key |-> key, ok |-> r.ok, err |-> r.err]
            /\ evictLog' = r.log
            /\ UNCHANGED <<asmVars, codecVars, frameVars, dispVars>>

PutSlice ==
    \E key \in Keys, sl \in Slices, b \in FillBytes :
        /\ AccessRoom(cache, key)
        /\ LET r == put_slice(cache, key, sl[1], Fill(sl[2], b))
           IN  /\ cache' = r.cache
               /\ cacheRes' = [op |-> "put_slice", key |-> key, ok |-> r.ok, err |-> r.err]
               /\ evictLog' = << >>
               /\ UNCHANGED <<asmVars, codecVars, frameVars, dispVars>>

Get ==
    \E key \in Keys :
        /\ AccessRoom(cache, key)
        /\ LET r == get(cache, key)
           IN  /\ cache' = r.cache
               /\ cacheRes' = [op |-> "get", key |-> key, ok |-> r.found, err |-> None]
               /\ evictLog' = << >>
               /\ UNCHANGED <<asmVars, codecVars, frameVars, dispVars>>

CacheNext == Put \/ PutSlice \/ Get

SpecCache == CacheInit /\ [][CacheNext]_vars

(***************************************************************************)
(* Claims about the worker module cache.                                   *)
(***************************************************************************)

\* C1: after every put, put_slice and get call, failing calls included, the
\* byte lengths of the stored entries sum to at most the capacity (and the
\* cache's own counter `allocated` is that sum).
C1_SizeWithinCapacity ==
    /\ StoredBytes(cache) <= cache.capacity
    /\ cache.allocated = StoredBytes(cache)

\* C1 witness: a put_slice was refused with CacheFull on a cache filled to capacity.
C1_Witness ==
    /\ cacheRes.op = "put_slice"
    /\ cacheRes.err = "CacheFull"
    /\ StoredBytes(cache) = cache.capacity

\* v has a minimal access^2/size among es, by the integer cross product
MinimalScore(es, v) ==
    \A k \in DOMAIN es :
        es[v].access * es[v].access * Len(es[k].data)
            <= es[k].access * es[k].access * Len(es[v].data)

\* the cache of the eviction example just before k3 is inserted
ExampleBefore(es) ==
    /\ DOMAIN es = {"k1", "k2"}
    /\ Len(es["k1"].data) = 5 /\ es["k1"].access = 2
    /\ Len(es["k2"].data) = 10 /\ es["k2"].access = 4

\* C8: every entry put evicts has a minimal access^2/size among the entries
\* present at that moment (integer cross-product comparison); the candidate of
\* LruCache::find_removal_candidate is minimal too; and in the example
\* (capacity 15, k1 of 5 bytes written once, k2 of 10 bytes written once and
\* read twice) inserting k3 of 2 bytes evicts k1 alone and keeps k2.
C8_VictimMinimal ==
    /\ \A i \in 1..Len(evictLog) : MinimalScore(evictLog[i].before, evictLog[i].victim)
    /\ cache.entries # << >> => MinimalScore(cache.entries, find_removal_candidate(cache.entries))
    /\ (/\ cacheRes.op = "put" /\ cacheRes.key = "k3"
        /\ evictLog # << >> /\ ExampleBefore(evictLog[1].before)
        /\ cacheRes.ok /\ Len(cache.entries["k3"].data) = 2)
       => /\ Len(evictLog) = 1 /\ evictLog[1].victim = "k1"
          /\ DOMAIN cache.entries = {"k2", "k3"}

\* C8 witness: the example has happened.
C8_Witness ==
    /\ cacheRes.op = "put" /\ cacheRes.key = "k3" /\ cacheRes.ok
    /\ Len(evictLog) = 1 /\ ExampleBefore(evictLog[1].before)
    /\ evictLog[1].victim = "k1"
    /\ DOMAIN cache.entries = {"k2", "k3"}

(***************************************************************************)
(* Worker chunk assembler (ModuleTransfer) over the module cache.          *)
(***************************************************************************)
\* byte i (from 0) of a module binary
ModuleByte(i) == (i % 3) + 1
Binary(size) == [i \in 1..size |-> ModuleByte(i - 1)]

\* usize::div_ceil
DivCeil(a, b) == (a + b - 1) \div b

\* the descriptor assign_tasks sends: total_chunks = size.div_ceil(chunk_size)
ModuleInfo(name, size, chunk_size) ==
    [name |-> name, size |-> size, chunk_size |-> chunk_size,
     total_chunks |-> DivCeil(size, chunk_size)]

Descriptors ==
    {ModuleInfo("k1", size, cs) : size \in 0..MaxModuleSize, cs \in 1..MaxChunkSize}

\* slice::chunks(chunk_size): chunk index (from 0) of a binary
Chunk(size, chunk_size, index) ==
    LET lo == index * chunk_size
        hi == IF lo + chunk_size < size THEN lo + chunk_size ELSE size
    IN  [i \in 1..(hi - lo) |-> ModuleByte(lo + i - 1)]

\* ModuleTransfer::new
new_transfer(meta) ==
    [name |-> meta.name, size |-> meta.size, chunk_size |-> meta.chunk_size,
     total_chunks |-> meta.total_chunks,
     received |-> [i \in 1..meta.total_chunks |-> FALSE]]

\* a transfer that counts as complete with its first chunk
is_complete_any(t) == \E i \in 1..Len(t.received) : t.received[i]

\* ModuleTransfer::is_complete
is_complete(t) == \A i \in 1..Len(t.received) : t.received[i]

\* mutant of add_chunk: the chunk is written at offset index instead of index * chunk_size
add_chunk_index_offset(t, c, index, data) ==
    IF index >= t.total_chunks
    THEN [transfer |-> t, cache |-> c, ok |-> FALSE, err |-> "InvalidChunkIndex"]
    ELSE IF t.received[index + 1]
    THEN [transfer |-> t, cache |-> c, ok |-> FALSE, err |-> "DuplicateChunk"]
    ELSE LET expected_size == IF index = t.total_chunks - 1
                              THEN t.size - t.chunk_size * (t.total_chunks - 1)
                              ELSE t.chunk_size
         IN  IF Len(data) = expected_size
             THEN LET r == put_slice(c, t.name, index, data)
                  IN  IF r.ok
                      THEN [transfer |-> [t EXCEPT !.received[index + 1] = TRUE],
                            cache |-> r.cache, ok |-> TRUE, err |-> None]
                      ELSE [transfer |-> t, cache |-> r.cache, ok |-> FALSE, err |-> r.err]
             ELSE [transfer |-> t, cache |-> c, ok |-> FALSE, err |-> "InvalidChunkSize"]

\* mutant of add_chunk: the last chunk is expected to be a full chunk_size too
add_chunk_full_last(t, c, index, data) ==
    IF index >= t.total_chunks
    THEN [transfer |-> t, cache |-> c, ok |-> FALSE, err |-> "InvalidChunkIndex"]
    ELSE IF t.received[index + 1]
    THEN [transfer |-> t, cache |-> c, ok |-> FALSE, err |-> "DuplicateChunk"]
    ELSE IF Len(data) = t.chunk_size
         THEN LET r == put_slice(c, t.name, index * t.chunk_size, data)
              IN  IF r.ok
                  THEN [transfer |-> [t EXCEPT !.received[index + 1] = TRUE],
                        cache |-> r.cache, ok |-> TRUE, err |-> None]
                  ELSE [transfer |-> t, cache |-> r.cache, ok |-> FALSE, err |-> r.err]
         ELSE [transfer |-> t, cache |-> c, ok |-> FALSE, err |-> "InvalidChunkSize"]

\* mutant of add_chunk: a chunk of the wrong length is refused but marked received
add_chunk_mark_rejected(t, c, index, data) ==
    IF index >= t.total_chunks
    THEN [transfer |-> t, cache |-> c, ok |-> FALSE, err |-> "InvalidChunkIndex"]
    ELSE IF t.received[index + 1]
    THEN [transfer |-> t, cache |-> c, ok |-> FALSE, err |-> "DuplicateChunk"]
    ELSE LET expected_size == IF index = t.total_chunks - 1
                              THEN t.size - t.chunk_size * (t.total_chunks - 1)
                              ELSE t.chunk_size
         IN  IF Len(data) = expected_size
             THEN LET r == put_slice(c, t.name, index * t.chunk_size, data)
                  IN  IF r.ok
                      THEN [transfer |-> [t EXCEPT !.received[index + 1] = TRUE],
                            cache |-> r.cache, ok |-> TRUE, err |-> None]
                      ELSE [transfer |-> t, cache |-> r.cache, ok |-> FALSE, err |-> r.err]
             ELSE [transfer |-> [t EXCEPT !.received[index + 1] = TRUE],
                   cache |-> c, ok |-> FALSE, err |-> "InvalidChunkSize"]

\* ModuleTransfer::add_chunk: [transfer, cache, ok, err]
add_chunk(t, c, index, data) ==
    IF index >= t.total_chunks
    THEN [transfer |-> t, cache |-> c, ok |-> FALSE, err |-> "InvalidChunkIndex"]
    ELSE IF t.received[index + 1]
    THEN [transfer |-> t, cache |-> c, ok |-> FALSE, err |-> "DuplicateChunk"]
    ELSE LET expected_size == IF index = t.total_chunks - 1
                              THEN t.size - t.chunk_size * (t.total_chunks - 1)
                              ELSE t.chunk_size
         IN  IF Len(data) = expected_size
             THEN LET r == put_slice(c, t.name, index * t.chunk_size, data)
                  IN  IF r.ok
                      THEN [transfer |-> [t EXCEPT !.received[index + 1] = TRUE],
                            cache |-> r.cache, ok |-> TRUE, err |-> None]
                      ELSE [transfer |-> t, cache |-> r.cache, ok |-> FALSE, err |-> r.err]
             ELSE [transfer |-> t, cache |-> c, ok |-> FALSE, err |-> "InvalidChunkSize"]

\* the slot after the chunks 0..n-1 were delivered in order to a fresh slot
RECURSIVE InOrder(_, _)
InOrder(meta, n) ==
    IF n = 0
    THEN [transfer |-> new_transfer(meta),
          cache |-> put(new_cache(TestCapacity), meta.name, meta.size).cache]
    ELSE LET p == InOrder(meta, n - 1)
             r == add_chunk(p.transfer, p.cache, n - 1, Chunk(meta.size, meta.chunk_size, n - 1))
         IN  [transfer |-> r.transfer, cache |-> r.cache]

\* the data offered for chunk `index`: the chunk itself, or one byte short, or one byte long
ChunkOffers(t, index) ==
    LET good == Chunk(t.size, t.chunk_size, index)
    IN  {good, Append(good, 1)} \cup (IF good = << >> THEN {} ELSE {SubSeq(good, 1, Len(good) - 1)})

\* the worker reserves the slot (put) and creates the transfer, as on a ServerTask
AsmInit ==
    /\ \E meta \in Descriptors :
          /\ transfer = new_transfer(meta)
          /\ cache = put(new_cache(TestCapacity), meta.name, meta.size).cache
    /\ cacheRes = [op |-> "put", key |-> "k1", ok |-> TRUE, err |-> None]
    /\ evictLog = << >>
    /\ asmRes = NoAsmRes
    /\ CodecIdle /\ FrameIdle /\ DispIdle

AddChunk ==
    \E index \in 0..transfer.total_chunks :
      \E data \in ChunkOffers(transfer, index) :
        LET r == add_chunk(transfer, cache, index, data)
        IN  /\ transfer' = r.transfer
            /\ cache' = r.cache
            /\ asmRes' = [op |-> "add_chunk", index |-> index, len |-> Len(data),
                          dup |-> index < transfer.total_chunks /\ transfer.received[index + 1],
                          ok |-> r.ok, err |-> r.err]
            /\ UNCHANGED <<cacheRes, evictLog, codecVars, frameVars, dispVars>>

AsmNext == AddChunk

SpecAsm == AsmInit /\ [][AsmNext]_vars

Meta(t) == [name |-> t.name, size |-> t.size, chunk_size |-> t.chunk_size,
            total_chunks |-> t.total_chunks]

ExpectedLen(t, index) ==
    IF index = t.total_chunks - 1 THEN t.size - t.chunk_size * (t.total_chunks - 1)
    ELSE t.chunk_size

\* C9: whatever the order of delivery, a correctly sized chunk that was not
\* delivered before is accepted, and once all N chunks are in, the cache slot
\* holds C0||C1||...||C(N-1), of the declared size: the bytes in-order
\* delivery leaves.
C9_AnyOrderSameBytes ==
    /\ (asmRes.op = "add_chunk" /\ asmRes.index < transfer.total_chunks /\ ~asmRes.dup
          /\ asmRes.len = ExpectedLen(transfer, asmRes.index)) => asmRes.ok
    /\ is_complete(transfer) =>
          /\ cache.entries[transfer.name].data = Binary(transfer.size)
          /\ Len(cache.entries[transfer.name].data) = transfer.size
          /\ cache.entries[transfer.name].data
               = InOrder(Meta(transfer), transfer.total_chunks).cache.entries[transfer.name].data

\* C9 witness: a three-chunk module completed by chunk 0 arriving last.
C9_Witness ==
    /\ transfer.total_chunks = 3 /\ transfer.size = 5
    /\ is_complete(transfer)
    /\ asmRes.op = "add_chunk" /\ asmRes.ok /\ asmRes.index = 0

(***************************************************************************)
(* Wire codec (protocol/src/lib.rs).  Integers wider than 31 bits are kept *)
(* as sequences of 16-bit limbs, most significant first.                   *)
(***************************************************************************)
HEADER_SIZE == 3

W16 == 65536

\* u16::to_be_bytes of `n as u16`
U16BE(n) == <<(n % W16) \div 256, n % 256>>
\* u32::to_be_bytes of a length
U32BE(n) == <<(n \div 16777216) % 256, (n \div W16) % 256, (n \div 256) % 256, n % 256>>
\* to_be_bytes of a value given by its limbs
RECURSIVE LimbsBE(_)
LimbsBE(limbs) ==
    IF limbs = << >> THEN << >>
    ELSE <<limbs[1] \div 256, limbs[1] % 256>> \o LimbsBE(Tail(limbs))
\* from_be_bytes into limbs
BELimbs(bytes) ==
    [i \in 1..(Len(bytes) \div 2) |-> bytes[2 * i - 1] * 256 + bytes[2 * i]]
\* u16::from_be_bytes
BEU16(b1, b2) == b1 * 256 + b2

\* the 32-bit words of a value, in array order: transmute::<_, [u32; N]> puts the
\* least significant word first on a little-endian machine, last on a big-endian one
Words(limbs, h) ==
    LET n == Len(limbs) \div 2
        msf == [i \in 1..n |-> <<limbs[2 * i - 1], limbs[2 * i]>>]
    IN  IF h = "little" THEN [i \in 1..n |-> msf[n + 1 - i]] ELSE msf
\* the inverse transmute: array order back to limbs
Unwords(words, h) ==
    LET n == Len(words)
        msf == IF h = "little" THEN [i \in 1..n |-> words[n + 1 - i]] ELSE words
    IN  [i \in 1..(2 * n) |-> msf[(i + 1) \div 2][2 - (i % 2)]]

\* the two's-complement limbs of an i32
I32Limbs(v) == <<(v \div W16) % W16, v % W16>>
\* the i32 of two limbs
LimbsI32(l) == (IF l[1] >= 32768 THEN l[1] - W16 ELSE l[1]) * W16 + l[2]

TypeTag(val) ==
    CASE val.tag = "Void" -> 0
      [] val.tag = "I32" -> 1
      [] val.tag = "I64" -> 2
      [] val.tag = "F32" -> 3
      [] val.tag = "F64" -> 4
      [] val.tag = "V128" -> 5

\* Type::encode: Vec<u32>, each word a pair of limbs
encode_type(val, h) ==
    CASE val.tag = "Void" -> << >>
      [] val.tag = "I32" -> Words(I32Limbs(val.v), h)
      [] OTHER -> Words(val.bits, h)

\* number of words decode_to_* indexes
WordsNeeded(tag) ==
    CASE tag = 0 -> 0
      [] tag \in {1, 3} -> 1
      [] tag \in {2, 4} -> 2
      [] tag = 5 -> 4
      [] OTHER -> 0

\* Type::decode_to_i32 .. decode_to_v128 on the first words of u32_vec
decode_type(tag, words, h) ==
    LET used == SubSeq(words, 1, WordsNeeded(tag))
    IN  CASE tag = 0 -> [tag |-> "Void"]
          [] tag = 1 -> [tag |-> "I32", v |-> LimbsI32(Unwords(used, h))]
          [] tag = 2 -> [tag |-> "I64", bits |-> Unwords(used, h)]
          [] tag = 3 -> [tag |-> "F32", bits |-> Unwords(used, h)]
          [] tag = 4 -> [tag |-> "F64", bits |-> Unwords(used, h)]
          [] tag = 5 -> [tag |-> "V128", bits |-> Unwords(used, h)]

RECURSIVE WordsBE(_)
WordsBE(words) ==
    IF words = << >> THEN << >>
    ELSE LimbsBE(Head(words)) \o WordsBE(Tail(words))

RECURSIVE SerializeValues(_, _)
SerializeValues(values, h) ==
    IF values = << >> THEN << >>
    ELSE LET encoded == encode_type(Head(values), h)
         IN  <<TypeTag(Head(values)), Len(encoded) % 256>> \o WordsBE(encoded)
                 \o SerializeValues(Tail(values), h)

\* mutant of serialize_types: the value count is written as one byte
serialize_types_u8_count(values, h) ==
    <<Len(values) % 256>> \o SerializeValues(values, h)

\* serialize_types
serialize_types(values, h) ==
    U16BE(Len(values)) \o SerializeValues(values, h)

\* the loop of deserialize_types: [panic, values]
RECURSIVE DeserializeLoop(_, _, _, _, _)
DeserializeLoop(data, left, offset, values, h) ==
    IF left = 0 \/ offset >= Len(data) THEN [panic |-> FALSE, values |-> values]
    ELSE LET tag == data[offset + 1]
             o1 == offset + 1
         IN  IF o1 >= Len(data) THEN [panic |-> FALSE, values |-> values]
             ELSE LET len == data[o1 + 1]
                      o2 == o1 + 1
                  IN  IF o2 + len * 4 > Len(data) THEN [panic |-> FALSE, values |-> values]
                      ELSE LET words == [i \in 1..len |->
                                            BELimbs(SubSeq(data, o2 + (i - 1) * 4 + 1, o2 + i * 4))]
                               o3 == o2 + len * 4
                           IN  IF tag > 5
                               THEN DeserializeLoop(data, left - 1, o3, values, h)
                               ELSE IF len < WordsNeeded(tag)
                               THEN [panic |-> TRUE, values |-> values]
                               ELSE DeserializeLoop(data, left - 1, o3,
                                                    Append(values, decode_type(tag, words, h)), h)

\* deserialize_types: [panic, values]
deserialize_types(data, h) ==
    IF Len(data) < 2 THEN [panic |-> FALSE, values |-> << >>]
    ELSE DeserializeLoop(data, BEU16(data[1], data[2]), 2, << >>, h)

\* Message::serialize
serialize(m, h) ==
    LET msg_type == CASE m.type = "ClientReady" -> 1
                      [] m.type = "ServerTask" -> 2
                      [] m.type = "ClientResult" -> 3
                      [] m.type = "ServerAck" -> 4
        payload == CASE m.type = "ClientReady" -> << >>
                     [] m.type = "ServerTask" ->
                            LimbsBE(m.task_id) \o U32BE(Len(m.binary)) \o m.binary
                                \o serialize_types(m.params, h)
                     [] m.type = "ClientResult" ->
                            LimbsBE(m.task_id) \o serialize_types(m.result, h)
                     [] m.type = "ServerAck" ->
                            LimbsBE(m.task_id) \o <<IF m.success THEN 1 ELSE 0>>
    IN  <<msg_type>> \o U16BE(Len(payload)) \o payload

Ok(m) == [kind |-> "Ok", msg |-> m, err |-> None]
Err(e) == [kind |-> "Err", msg |-> None, err |-> e]
\* an out-of-range slice or index aborts the caller
Panic == [kind |-> "Panic", msg |-> None, err |-> None]

\* u32::from_be_bytes as usize; a length above 65535 exceeds every payload
BEU32(b) == IF b[1] = 0 /\ b[2] = 0 THEN b[3] * 256 + b[4] ELSE W16

\* Message::deserialize
deserialize(data, h) ==
    IF Len(data) < HEADER_SIZE THEN Err("InsufficientData")
    ELSE LET msg_type == data[1]
             payload_len == BEU16(data[2], data[3])
             used == HEADER_SIZE + payload_len
         IN  IF used > Len(data) THEN Panic
             ELSE LET payload == SubSeq(data, HEADER_SIZE + 1, used)
                  IN  CASE msg_type = 1 -> Ok([type |-> "ClientReady"])
                        [] msg_type = 2 ->
                             IF Len(payload) < 12 THEN Err("InsufficientData")
                             ELSE LET binary_len == BEU32(SubSeq(payload, 9, 12))
                                  IN  IF 12 + binary_len > Len(payload) THEN Panic
                                      ELSE LET p == deserialize_types(
                                                      SubSeq(payload, 12 + binary_len + 1, Len(payload)), h)
                                           IN  IF p.panic THEN Panic
                                               ELSE Ok([type |-> "ServerTask",
                                                        task_id |-> BELimbs(SubSeq(payload, 1, 8)),
                                                        binary |-> SubSeq(payload, 13, 12 + binary_len),
                                                        params |-> p.values])
                        [] msg_type = 3 ->
                             IF Len(payload) < 10 THEN Err("InsufficientData")
                             ELSE LET p == deserialize_types(SubSeq(payload, 9, Len(payload)), h)
                                  IN  IF p.panic THEN Panic
                                      ELSE Ok([type |-> "ClientResult",
                                               task_id |-> BELimbs(SubSeq(payload, 1, 8)),
                                               result |-> p.values])
                        [] msg_type = 4 ->
                             IF Len(payload) < 9 THEN Err("InsufficientData")
                             ELSE Ok([type |-> "ServerAck",
                                      task_id |-> BELimbs(SubSeq(payload, 1, 8)),
                                      success |-> payload[9] # 0])
                        [] OTHER -> Err("InvalidMessageType")

\* Message::decode: InsufficientData while the frame the header declares is not
\* complete; otherwise the deserialized message together with the number of
\* bytes consumed, the header and the declared payload
decode(data, h) ==
    IF Len(data) < HEADER_SIZE \/ Len(data) < HEADER_SIZE + BEU16(data[2], data[3])
    THEN [kind |-> "Err", msg |-> None, err |-> "InsufficientData", consumed |-> 0]
    ELSE LET used == HEADER_SIZE + BEU16(data[2], data[3])
             r == deserialize(SubSeq(data, 1, used), h)
         IN  [kind |-> r.kind, msg |-> r.msg, err |-> r.err,
              consumed |-> IF r.kind = "Ok" THEN used ELSE 0]

\* representative values of every Type variant, wide ones by their bit pattern
TypeValues ==
    { [tag |-> "Void"],
      [tag |-> "I32", v |-> -1],
      [tag |-> "I32", v |-> -2147483647 - 1],
      [tag |-> "I64", bits |-> <<0, 0, 0, 1000>>],
      [tag |-> "F32", bits |-> <<16429, 63572>>],
      [tag |-> "F64", bits |-> <<16393, 8699, 61594, 28270>>],
      [tag |-> "V128", bits |-> <<32768, 1, 2, 3, 4, 5, 6, 65535>>] }

RECURSIVE SeqsUpTo(_, _)
SeqsUpTo(S, n) ==
    IF n = 0 THEN {<< >>}
    ELSE LET shorter == SeqsUpTo(S, n - 1)
         IN  shorter \cup {Append(q, x) : q \in shorter, x \in S}

TypeVecs == SeqsUpTo(TypeValues, MaxParams)

\* task ids (u64) as limbs: the id of the codec tests, u64::MAX
WireTaskIds == {<<4660, 22136, 39612, 57072>>, <<65535, 65535, 65535, 65535>>}
Binaries == {<< >>, <<102, 111, 111>>}

Messages ==
    {[type |-> "ClientReady"]}
    \cup {[type |-> "ServerTask", task_id |-> t, binary |-> b, params |-> p] :
              t \in WireTaskIds, b \in Binaries, p \in TypeVecs}
    \cup {[type |-> "ClientResult", task_id |-> t, result |-> p] : t \in WireTaskIds, p \in TypeVecs}
    \cup {[type |-> "ServerAck", task_id |-> t, success |-> b] : t \in WireTaskIds, b \in BOOLEAN}

CodecInit ==
    /\ msg \in Messages
    /\ host \in {"little", "big"}
    /\ wireBytes = << >>
    /\ decoded = [stage |-> "new"]
    /\ CacheStart /\ AsmIdle /\ FrameIdle /\ DispIdle

\* the sender serializes the message
Encode ==
    /\ decoded.stage = "new"
    /\ wireBytes' = serialize(msg, host)
    /\ decoded' = [stage |-> "encoded"]
    /\ UNCHANGED <<msg, host, cacheVars, asmVars, frameVars, dispVars>>

\* the receiver decodes the whole frame
Decode ==
    /\ decoded.stage = "encoded"
    /\ decoded' = [stage |-> "decoded", from |-> Len(wireBytes), res |-> decode(wireBytes, host)]
    /\ UNCHANGED <<msg, host, wireBytes, cacheVars, asmVars, frameVars, dispVars>>

\* Message::deserialize applied when only the first n bytes of the frame have arrived
DeserializePrefix ==
    /\ decoded.stage = "encoded"
    /\ \E n \in 0..(Len(wireBytes) - 1) :
          decoded' = [stage |-> "deserialized", from |-> n,
                      res |-> deserialize(SubSeq(wireBytes, 1, n), host)]
    /\ UNCHANGED <<msg, host, wireBytes, cacheVars, asmVars, frameVars, dispVars>>

CodecNext == Encode \/ Decode \/ DeserializePrefix

SpecCodec == CodecInit /\ [][CodecNext]_vars

\* C7: decoding the bytes serialize produced for a message yields that message
\* again and consumes exactly the length of the encoding.
C7_RoundTrip ==
    (decoded.stage = "decoded" /\ decoded.from = Len(wireBytes)) =>
        /\ decoded.res.kind = "Ok"
        /\ decoded.res.msg = msg
        /\ decoded.res.consumed = Len(wireBytes)

\* C7 witness: a ServerTask with an i64 and a negative i32 parameter came back.
C7_Witness ==
    /\ decoded.stage = "decoded" /\ decoded.from = Len(wireBytes)
    /\ decoded.res.kind = "Ok"
    /\ msg.type = "ServerTask"
    /\ decoded.res.msg.params = <<[tag |-> "I64", bits |-> <<0, 0, 0, 1000>>], [tag |-> "I32", v |-> -1]>>

(***************************************************************************)
(* Framed receive loops: NetworkSystem::process_inbound on the dispatcher  *)
(* and Session::process_io on the worker.                                  *)
(***************************************************************************)
\* the messages a peer sends in the framing specification
FrameMessages ==
    { [type |-> "ClientReady"],
      [type |-> "ServerAck", task_id |-> <<0, 0, 0, 1>>, success |-> TRUE],
      [type |-> "ClientResult", task_id |-> <<0, 0, 0, 1>>, result |-> <<[tag |-> "I32", v |-> 42]>>] }

RECURSIVE EncodeAll(_)
EncodeAll(ms) ==
    IF ms = << >> THEN << >> ELSE serialize(Head(ms), "little") \o EncodeAll(Tail(ms))

Advance(buf, n) == SubSeq(buf, n + 1, Len(buf))

\* mutant of DecodeLoop: the buffer is cleared once no further message decodes
RECURSIVE DecodeLoopClearing(_, _)
DecodeLoopClearing(buf, events) ==
    LET r == decode(buf, "little")
    IN  IF r.kind = "Ok"
        THEN DecodeLoopClearing(Advance(buf, r.consumed), Append(events, r.msg))
        ELSE [incoming |-> << >>, events |-> events]

\* while let Ok((message, consumed)) = Message::decode(&incoming) { advance(consumed); dispatch }
RECURSIVE DecodeLoop(_, _)
DecodeLoop(buf, events) ==
    LET r == decode(buf, "little")
    IN  IF r.kind = "Ok"
        THEN DecodeLoop(Advance(buf, r.consumed), Append(events, r.msg))
        ELSE [incoming |-> buf, events |-> events]

FrameInit ==
    /\ frSent \in SeqsUpTo(FrameMessages, MaxFrames)
    /\ frWire = EncodeAll(frSent)
    /\ frIncoming = << >>
    /\ frEvents = << >>
    /\ frRole \in {"server", "worker"}
    /\ frStatus = "Connected"
    /\ CacheStart /\ AsmIdle /\ CodecIdle /\ DispIdle

\* process_inbound on one session: read_buf returned n > 0 bytes
ServerRead ==
    /\ frRole = "server"
    /\ \E n \in 1..Len(frWire) :
          LET r == DecodeLoop(frIncoming \o SubSeq(frWire, 1, n), frEvents)
          IN  /\ frWire' = Advance(frWire, n)
              /\ frIncoming' = r.incoming
              /\ frEvents' = r.events
    /\ UNCHANGED <<frSent, frRole, frStatus, cacheVars, asmVars, codecVars, dispVars>>

\* process_inbound on one session: read_buf returned Ok(0), the peer closed
\* after its last byte
ServerEof ==
    /\ frRole = "server"
    /\ frWire = << >>
    /\ frStatus' = "Disconnected"
    /\ UNCHANGED <<frSent, frWire, frIncoming, frEvents, frRole, cacheVars, asmVars, codecVars, dispVars>>

\* process_io: transport.read returned n > 0 bytes
WorkerRead ==
    /\ frRole = "worker"
    /\ \E n \in 1..Len(frWire) :
          LET r == DecodeLoop(frIncoming \o SubSeq(frWire, 1, n), frEvents)
          IN  /\ frWire' = Advance(frWire, n)
              /\ frIncoming' = r.incoming
              /\ frEvents' = r.events
    /\ UNCHANGED <<frSent, frRole, frStatus, cacheVars, asmVars, codecVars, dispVars>>

\* process_io: transport.read failed
WorkerReadError ==
    /\ frRole = "worker"
    /\ frStatus = "Connected"
    /\ frStatus' = "Failed"
    /\ UNCHANGED <<frSent, frWire, frIncoming, frEvents, frRole, cacheVars, asmVars, codecVars, dispVars>>

FrameNext == ServerRead \/ ServerEof \/ WorkerRead \/ WorkerReadError

SpecFrame == FrameInit /\ [][FrameNext]_vars

\* C6: however the frames are split across reads, the dispatched messages
\* are a prefix of the sent ones (each once, in order), the bytes of the
\* dispatched frames, the buffer and the bytes still to come make up the
\* sent stream (the buffer only loses whole frames), and what is left in
\* the buffer is an incomplete frame, reported as InsufficientData.
C6_WholeFramesOnly ==
    /\ Len(frEvents) <= Len(frSent)
    /\ frEvents = SubSeq(frSent, 1, Len(frEvents))
    /\ EncodeAll(frEvents) \o frIncoming \o frWire = EncodeAll(frSent)
    /\ decode(frIncoming, "little").err = "InsufficientData"
    /\ frWire = << >> => frEvents = frSent

\* C6 witness: a frame was dispatched and the first bytes of the next one,
\* cut inside its payload, wait in the buffer.
C6_Witness ==
    /\ Len(frEvents) = 1
    /\ Len(frIncoming) > HEADER_SIZE
    /\ frWire # << >>

(***************************************************************************)
(* Dispatcher: the world of sessions, tasks and modules, and the passes of *)
(* the tick loop (server/src/dispatcher.rs, server/src/systems).           *)
(* Entities are named; SessionOrder and TaskOrder give the order in which  *)
(* a world query visits them.  A heartbeat's age is an input of the        *)
(* lifecycle pass, so last_heartbeat and latency are not kept.             *)
(***************************************************************************)
MAX_RETRIES == 5
TIMEOUT == 32
\* the per-task working memory assign_tasks adds to the module size
RamOverhead == 2048
\* device_ram reported by the devices of the scheduler tests
DeviceRam == 4096

SessionOrder == <<"s1", "s2">>
SessionIds == {SessionOrder[i] : i \in 1..Len(SessionOrder)}
TaskOrder == <<"t1", "t2">>
TaskIds == {TaskOrder[i] : i \in 1..Len(TaskOrder)}
\* a task id on the wire that names no task entity
UnknownTask == "t9"
WireTasks == TaskIds \cup {UnknownTask}
ResultVectors == {<<"r1">>, <<"r2">>}

\* the Module entity: its id stands for its name as well
ModuleOrder == <<"m">>
ModuleIds == {ModuleOrder[i] : i \in 1..Len(ModuleOrder)}
Module(m) == [name |-> m, binary |-> Binary(ServerModuleSize), chunk_size |-> ServerChunkSize]

\* the fields of Task that never change
Task(t) == [require_module |-> "m", module_name |-> "m", priority |-> 1, params |-> << >>]

Position(order, e) == CHOOSE i \in 1..Len(order) : order[i] = e

NoTransfer == [present |-> FALSE, state |-> None, acked_chunks |-> << >>, session |-> None]

NoAge == [age |-> 0, passes |-> 0]

OutIdle == outWire = << >> /\ outLog = << >>

\* initialize_modules_and_tasks: every task Queued, no device, empty result
NewTask == [phase |-> "Queued", assigned_device |-> None, result |-> << >>, transfer |-> NoTransfer]

NoSession(alive) ==
    [alive |-> alive, status |-> None, retries |-> 0, message_queue |-> << >>,
     outgoing |-> << >>, modules |-> {}, device_ram |-> 0]

\* LifecycleSystem::accept_connection
accept_connection ==
    [alive |-> "live", status |-> "Connected", retries |-> 0, message_queue |-> << >>,
     outgoing |-> << >>, modules |-> {}, device_ram |-> 0]

Live(ss, s) == s \in SessionIds /\ ss[s].alive = "live"

all(bits) == \A i \in 1..Len(bits) : bits[i]

(* Messages of the worker. *)
Heartbeat(future) == [type |-> "Heartbeat", future |-> future]
ClientReady(modules, ram) == [type |-> "ClientReady", modules |-> modules, device_ram |-> ram]
AckTask(modules) == [kind |-> "Task", modules |-> modules]
AckModule(index, success) == [kind |-> "Module", chunk_index |-> index, success |-> success]
ClientAck(t, info) == [type |-> "ClientAck", task_id |-> t, ack_info |-> info]
ClientResult(t, r) == [type |-> "ClientResult", task_id |-> t, result |-> r]

(* Messages of the dispatcher. *)
ServerTask(t, module, params) ==
    [type |-> "ServerTask", task_id |-> t, module |-> module, params |-> params]
ServerModule(t, index, data) ==
    [type |-> "ServerModule", task_id |-> t, chunk_index |-> index, chunk_data |-> data]
ServerAckMsg(t, success) == [type |-> "ServerAck", task_id |-> t, success |-> success]

TotalChunks == DivCeil(ServerModuleSize, ServerChunkSize)

\* what one read_buf can deliver: the messages completed by the bytes read
RemoteMessages ==
    {Heartbeat(f) : f \in BOOLEAN}
    \cup {ClientReady(ms, DeviceRam) : ms \in SUBSET ModuleIds}
    \cup {ClientAck(t, AckTask(ms)) : t \in TaskIds, ms \in SUBSET ModuleIds}
    \cup {ClientAck(t, AckModule(i, TRUE)) : t \in TaskIds, i \in 0..TotalChunks}
    \cup {ClientAck(t, AckModule(0, FALSE)) : t \in TaskIds}
    \cup {ClientResult(t, r) : t \in WireTasks, r \in ResultVectors}

\* the worker's answer to a ServerTask whose module it has cached
CacheHitReply(t) == <<ClientAck(t, AckTask(ModuleIds)), ClientResult(t, <<"r1">>)>>

Batches ==
    {<< >>} \cup {<<m>> : m \in RemoteMessages} \cup {CacheHitReply(t) : t \in TaskIds}

Reads ==
    {[kind |-> "eof", msgs |-> << >>], [kind |-> "err", msgs |-> << >>]}
    \cup {[kind |-> "data", msgs |-> b] : b \in Batches}

(* ---------------- LifecycleSystem::maintain_connection ---------------- *)
\* a pass whose timeout arm does not look at the status
maintain_session_any_status(h, expired, reconnected) ==
    CASE h.status # "Zombie" /\ expired -> [h EXCEPT !.status = "Zombie", !.retries = 0]
      [] h.status = "Zombie" ->
            IF h.retries + 1 >= MAX_RETRIES
            THEN NoSession("despawned")
            ELSE [h EXCEPT !.retries = h.retries + 1]
      [] h.status = "Disconnected" /\ reconnected -> [h EXCEPT !.status = "Connected"]
      [] OTHER -> h

\* expired: the sessions whose last heartbeat is older than TIMEOUT;
\* reconnected: the sessions for which the reconnect callback succeeds
maintain_session(h, expired, reconnected) ==
    CASE h.status = "Connected" /\ expired -> [h EXCEPT !.status = "Zombie", !.retries = 0]
      [] h.status = "Zombie" ->
            IF h.retries + 1 >= MAX_RETRIES
            THEN NoSession("despawned")
            ELSE [h EXCEPT !.retries = h.retries + 1]
      [] h.status = "Disconnected" /\ reconnected -> [h EXCEPT !.status = "Connected"]
      [] OTHER -> h

maintain_connection(ss, expired, reconnected) ==
    [s \in SessionIds |->
        IF Live(ss, s) THEN maintain_session(ss[s], s \in expired, s \in reconnected)
        ELSE ss[s]]

(* ---------------- NetworkSystem::process_inbound ---------------- *)
NoRead == [task |-> None, result |-> << >>]
NoAcks == [t \in WireTasks |-> << >>]
NoResults == [t \in WireTasks |-> None]

\* the body of the decode loop for one message; st = [session, acks, results, read, panic]
dispatch_message(st, m) ==
    LET h == st.session
    IN  CASE m.type = "Heartbeat" ->
               IF m.future THEN [st EXCEPT !.panic = "duration_since"] ELSE st
          [] m.type = "ClientReady" ->
               IF h.status = "Connected"
               THEN [st EXCEPT !.session.modules = m.modules,
                               !.session.device_ram = m.device_ram]
               ELSE st
          [] m.type = "ClientAck" ->
               IF h.status = "Occupied"
               THEN [st EXCEPT !.session.modules =
                                   IF m.ack_info.kind = "Task" THEN m.ack_info.modules ELSE @,
                               !.acks[m.task_id] = Append(@, m.ack_info)]
               ELSE st
          [] m.type = "ClientResult" ->
               IF h.status = "Occupied"
               THEN [st EXCEPT !.results[m.task_id] = m.result,
                               !.read = [task |-> m.task_id, result |-> m.result],
                               !.session.status = "Connected"]
               ELSE st
          [] OTHER -> st

RECURSIVE DispatchLoop(_, _)
DispatchLoop(st, msgs) ==
    IF msgs = << >> \/ st.panic # None THEN st
    ELSE DispatchLoop(dispatch_message(st, Head(msgs)), Tail(msgs))

\* the loop over the sessions; acc = [sessions, acks, results, read, panic]
RECURSIVE InboundLoop(_, _, _)
InboundLoop(order, input, acc) ==
    IF order = << >> \/ acc.panic # None THEN acc
    ELSE LET s == Head(order)
             h == acc.sessions[s]
         IN  IF ~Live(acc.sessions, s) THEN InboundLoop(Tail(order), input, acc)
             ELSE IF input[s].kind \in {"eof", "err"}
             THEN InboundLoop(Tail(order), input,
                              [acc EXCEPT !.sessions[s].status = "Disconnected"])
             ELSE LET r == DispatchLoop([session |-> h, acks |-> acc.acks,
                                         results |-> acc.results, read |-> NoRead,
                                         panic |-> None], input[s].msgs)
                  IN  InboundLoop(Tail(order), input,
                                  [sessions |-> [acc.sessions EXCEPT ![s] = r.session],
                                   acks |-> r.acks, results |-> r.results,
                                   read |-> [acc.read EXCEPT ![s] = r.read],
                                   panic |-> r.panic])

\* the acks of one task applied to its transfer record; r = [transfer, panic]
RECURSIVE ApplyAcks(_, _, _)
ApplyAcks(r, module_name, acks) ==
    IF acks = << >> \/ r.panic # None THEN r
    ELSE LET a == Head(acks)
         IN  IF a.kind = "Module"
             THEN IF a.chunk_index >= Len(r.transfer.acked_chunks)
                  THEN [r EXCEPT !.panic = "BitVec::set"]
                  ELSE ApplyAcks([r EXCEPT !.transfer.acked_chunks[a.chunk_index + 1] = a.success],
                                 module_name, Tail(acks))
             ELSE IF module_name \in a.modules
                  THEN [r EXCEPT !.transfer.state = "Requested",
                                 !.transfer.acked_chunks =
                                     [i \in 1..Len(r.transfer.acked_chunks) |-> TRUE]]
                  ELSE ApplyAcks([r EXCEPT !.transfer.state = "Requested"],
                                 module_name, Tail(acks))

\* for (entity, acks) in task_transfer: only tasks that carry a transfer record
AckedTask(tk, t, acks) ==
    IF t \in TaskIds /\ tk[t].transfer.present /\ acks[t] # << >>
    THEN ApplyAcks([transfer |-> tk[t].transfer, panic |-> None], Task(t).module_name, acks[t])
    ELSE [transfer |-> IF t \in TaskIds THEN tk[t].transfer ELSE NoTransfer, panic |-> None]

\* for (entity, result) in task_result, visited in the order `order`
RECURSIVE ApplyResults(_, _, _, _)
ApplyResults(order, results, tk, ss) ==
    IF order = << >> THEN [tasks |-> tk, sessions |-> ss]
    ELSE LET t == Head(order)
             d == tk[t].assigned_device
         IN  IF results[t] = None THEN ApplyResults(Tail(order), results, tk, ss)
             ELSE ApplyResults(Tail(order), results,
                      [tk EXCEPT ![t].result = results[t], ![t].phase = "Completed"],
                      IF d # None /\ Live(ss, d)
                      THEN [ss EXCEPT ![d].message_queue = Append(@, ServerAckMsg(t, TRUE))]
                      ELSE ss)

Orders(order) ==
    {p \in [1..Len(order) -> {order[i] : i \in 1..Len(order)}] :
        \A i, j \in 1..Len(order) : p[i] = p[j] => i = j}

\* the whole pass; `order` is the iteration order of the task_result hash map
process_inbound(ss, tk, input, order) ==
    LET read == InboundLoop(SessionOrder, input,
                    [sessions |-> ss, acks |-> NoAcks, results |-> NoResults,
                     read |-> [s \in SessionIds |-> NoRead], panic |-> None])
        acked == [t \in TaskIds |-> AckedTask(tk, t, read.acks)]
        ackPanics == {acked[t].panic : t \in TaskIds} \ {None}
        tk1 == [t \in TaskIds |-> [tk[t] EXCEPT !.transfer = acked[t].transfer]]
        done == ApplyResults(order, read.results, tk1, read.sessions)
        hit == {t \in TaskIds : /\ tk[t].transfer.present
                                /\ \E i \in 1..Len(read.acks[t]) :
                                       /\ read.acks[t][i].kind = "Task"
                                       /\ Task(t).module_name \in read.acks[t][i].modules}
    IN  IF read.panic # None
        THEN [panic |-> read.panic, sessions |-> ss, tasks |-> tk, read |-> read.read,
              hit |-> {}]
        ELSE IF ackPanics # {}
        THEN [panic |-> CHOOSE p \in ackPanics : TRUE, sessions |-> ss, tasks |-> tk,
              read |-> read.read, hit |-> {}]
        ELSE [panic |-> None, sessions |-> done.sessions, tasks |-> done.tasks,
              read |-> read.read, hit |-> hit]

(* ---------------- TaskSystem::assign_tasks ---------------- *)
TaskRecord(t) ==
    [entity |-> t, module_entity |-> Task(t).require_module,
     size |-> Len(Module(Task(t).require_module).binary),
     chunk_size |-> Module(Task(t).require_module).chunk_size,
     priority |-> Task(t).priority]

\* TaskRecord::cmp: a is Less than b (every comparison reversed)
TaskRecordLess(a, b) ==
    \/ a.priority > b.priority
    \/ a.priority = b.priority /\ a.size > b.size
    \/ a.priority = b.priority /\ a.size = b.size
       /\ Position(ModuleOrder, a.module_entity) > Position(ModuleOrder, b.module_entity)
    \/ a.priority = b.priority /\ a.size = b.size /\ a.module_entity = b.module_entity
       /\ Position(TaskOrder, a.entity) > Position(TaskOrder, b.entity)

\* BinaryHeap::pop: the greatest record
HeapTop(heap) ==
    CHOOSE t \in heap : \A u \in heap \ {t} : TaskRecordLess(TaskRecord(u), TaskRecord(t))

\* the devices max_by_key can return for a popped task: the last maximum in
\* the iteration order of the device hash map, which is any of the maxima
TargetDevices(t, devices, ss) ==
    LET rec == TaskRecord(t)
        required_ram == rec.size + RamOverhead
        suitable == {d \in devices : ss[d].device_ram >= required_ram}
        caching == {d \in suitable : rec.module_entity \in ss[d].modules}
    IN  IF caching # {}
        THEN {d \in caching : \A e \in caching : ss[d].device_ram <= ss[e].device_ram}
        ELSE {d \in suitable : \A e \in suitable : ss[d].device_ram >= ss[e].device_ram}

\* a binding that does not mark the session Occupied
BindTaskKeepStatus(w, t, d) ==
    LET rec == TaskRecord(t)
        module == ModuleInfo(Module(rec.module_entity).name, rec.size, rec.chunk_size)
    IN  [tasks |-> [w.tasks EXCEPT
                       ![t].phase = "Distributing",
                       ![t].assigned_device = d,
                       ![t].transfer =
                           [present |-> TRUE, state |-> "Pending",
                            acked_chunks |-> [i \in 1..module.total_chunks |-> FALSE],
                            session |-> d]],
         sessions |-> [w.sessions EXCEPT
                       ![d].message_queue = Append(@, ServerTask(t, module, Task(t).params))]]

\* the binding of task t to device d
BindTask(w, t, d) ==
    LET rec == TaskRecord(t)
        module == ModuleInfo(Module(rec.module_entity).name, rec.size, rec.chunk_size)
    IN  [tasks |-> [w.tasks EXCEPT
                       ![t].phase = "Distributing",
                       ![t].assigned_device = d,
                       ![t].transfer =
                           [present |-> TRUE, state |-> "Pending",
                            acked_chunks |-> [i \in 1..module.total_chunks |-> FALSE],
                            session |-> d]],
         sessions |-> [w.sessions EXCEPT
                       ![d].status = "Occupied",
                       ![d].message_queue = Append(@, ServerTask(t, module, Task(t).params))]]

\* a pass that leaves the chosen device in device_map
RECURSIVE AssignLoopKeepDevice(_, _, _)
AssignLoopKeepDevice(heap, devices, w) ==
    IF heap = {} THEN {w}
    ELSE LET t == HeapTop(heap)
             targets == TargetDevices(t, devices, w.sessions)
         IN  IF targets = {} THEN AssignLoopKeepDevice(heap \ {t}, devices, w)
             ELSE UNION {AssignLoopKeepDevice(heap \ {t}, devices, BindTask(w, t, d)) : d \in targets}

\* while let Some(task_record) = queued_tasks.pop(): the worlds the loop can end in
RECURSIVE AssignLoop(_, _, _)
AssignLoop(heap, devices, w) ==
    IF heap = {} THEN {w}
    ELSE LET t == HeapTop(heap)
             targets == TargetDevices(t, devices, w.sessions)
         IN  IF targets = {} THEN AssignLoop(heap \ {t}, devices, w)
             ELSE UNION {AssignLoop(heap \ {t}, devices \ {d}, BindTask(w, t, d)) : d \in targets}

assign_tasks(ss, tk) ==
    AssignLoop({t \in TaskIds : tk[t].phase = "Queued"},
               {d \in SessionIds : Live(ss, d) /\ ss[d].status = "Connected"},
               [tasks |-> tk, sessions |-> ss])

(* ---------------- TaskSystem::transfer_chunks ---------------- *)
\* a transfer pass that does not consult the bitset
RECURSIVE UnackedChunksAll(_, _, _)
UnackedChunksAll(t, acked, i) ==
    IF i >= Len(acked) THEN << >>
    ELSE <<ServerModule(t, i, Chunk(ServerModuleSize, ServerChunkSize, i))>>
         \o UnackedChunksAll(t, acked, i + 1)

RECURSIVE UnackedChunks(_, _, _)
UnackedChunks(t, acked, i) ==
    IF i >= Len(acked) THEN << >>
    ELSE (IF acked[i + 1] THEN << >>
          ELSE <<ServerModule(t, i, Chunk(ServerModuleSize, ServerChunkSize, i))>>)
         \o UnackedChunks(t, acked, i + 1)

\* a transfer pass that leaves the record Requested
RECURSIVE TransferLoopKeepRequested(_, _)
TransferLoopKeepRequested(order, w) ==
    IF order = << >> THEN w
    ELSE LET t == Head(order)
             tr == w.tasks[t].transfer
         IN  IF tr.present /\ tr.state = "Requested"
             THEN TransferLoopKeepRequested(Tail(order),
                      [tasks |-> w.tasks,
                       sessions |-> IF Live(w.sessions, tr.session)
                                    THEN [w.sessions EXCEPT ![tr.session].message_queue =
                                              @ \o UnackedChunks(t, tr.acked_chunks, 0)]
                                    ELSE w.sessions])
             ELSE TransferLoopKeepRequested(Tail(order), w)

RECURSIVE TransferLoop(_, _)
TransferLoop(order, w) ==
    IF order = << >> THEN w
    ELSE LET t == Head(order)
             tr == w.tasks[t].transfer
         IN  IF tr.present /\ tr.state = "Requested"
             THEN TransferLoop(Tail(order),
                      [tasks |-> [w.tasks EXCEPT ![t].transfer.state = "Transferring"],
                       sessions |-> IF Live(w.sessions, tr.session)
                                    THEN [w.sessions EXCEPT ![tr.session].message_queue =
                                              @ \o UnackedChunks(t, tr.acked_chunks, 0)]
                                    ELSE w.sessions])
             ELSE TransferLoop(Tail(order), w)

transfer_chunks(ss, tk) == TransferLoop(TaskOrder, [tasks |-> tk, sessions |-> ss])

(* ---------------- TaskSystem::finalize_transfer ---------------- *)
\* for (module_entity, session_entity) in completed_transfers: module_entity
\* is the entity of the task whose bitset is full
RECURSIVE FinalizeLoop(_, _)
FinalizeLoop(completed, w) ==
    IF completed = << >> THEN w
    ELSE LET module_entity == Head(completed)[1]
             session_entity == Head(completed)[2]
             ss1 == IF Live(w.sessions, session_entity)
                    THEN [w.sessions EXCEPT ![session_entity].modules = @ \cup {module_entity}]
                    ELSE w.sessions
             tk1 == [t \in TaskIds |->
                        IF Task(t).require_module = module_entity
                        THEN [w.tasks[t] EXCEPT !.phase = "Executing"]
                        ELSE w.tasks[t]]
             tk2 == [tk1 EXCEPT ![module_entity].transfer = NoTransfer]
         IN  FinalizeLoop(Tail(completed), [tasks |-> tk2, sessions |-> ss1])

RECURSIVE CompletedTransfers(_, _)
CompletedTransfers(order, tk) ==
    IF order = << >> THEN << >>
    ELSE LET t == Head(order)
         IN  (IF tk[t].transfer.present /\ all(tk[t].transfer.acked_chunks)
                 /\ tk[t].assigned_device # None
              THEN <<(<<t, tk[t].assigned_device>>)>> ELSE << >>)
             \o CompletedTransfers(Tail(order), tk)

finalize_transfer(ss, tk) ==
    FinalizeLoop(CompletedTransfers(TaskOrder, tk), [tasks |-> tk, sessions |-> ss])

(* ---------------- NetworkSystem::process_outbound ---------------- *)
\* failing: the sessions whose write_all returns an error
process_outbound(ss, failing) ==
    [s \in SessionIds |->
        IF ~Live(ss, s) THEN ss[s]
        ELSE LET out == ss[s].outgoing \o ss[s].message_queue
                 h == [ss[s] EXCEPT !.message_queue = << >>, !.outgoing = out]
             IN  IF out = << >> THEN h
                 ELSE IF s \in failing THEN [h EXCEPT !.retries = @ + 1]
                 ELSE [h EXCEPT !.outgoing = << >>, !.retries = 0]]

(* ---------------- the tick loop of dispatcher::run ---------------- *)
DispInit ==
    /\ sessions = [s \in SessionIds |-> NoSession("absent")]
    /\ tasks = [t \in TaskIds |-> NewTask]
    /\ pc = "maintain"
    /\ tick = 0
    /\ panicked = None
    /\ resultsRead = [s \in SessionIds |-> NoRead]
    /\ cacheHit = {}
    /\ chunkSent = {}
    /\ workerIn = << >>
    /\ workerOut = << >>
    /\ workerSt = << >>
    /\ lifeHist = [s \in SessionIds |-> NoAge]
    /\ OutIdle
    /\ self = None
    /\ queued_tasks = None
    /\ CacheStart /\ AsmIdle /\ CodecIdle /\ FrameIdle

Others == <<cacheVars, asmVars, codecVars, frameVars, honestVars, lifeHist, outVars, self, queued_tasks>>

\* the accept task takes the world lock between two ticks and spawns a session
Accept ==
    /\ pc = "maintain"
    /\ \E i \in 1..Len(SessionOrder) :
          /\ sessions[SessionOrder[i]].alive = "absent"
          /\ \A j \in 1..(i - 1) : sessions[SessionOrder[j]].alive # "absent"
          /\ sessions' = [sessions EXCEPT ![SessionOrder[i]] = accept_connection]
    /\ UNCHANGED <<tasks, pc, tick, panicked, resultsRead, histVars, Others>>

MaintainConnection ==
    /\ pc = "maintain"
    /\ tick < MaxTicks
    /\ \E expired \in SUBSET {s \in SessionIds : Live(sessions, s) /\ sessions[s].status = "Connected"},
          reconnected \in SUBSET {s \in SessionIds : Live(sessions, s) /\ sessions[s].status = "Disconnected"} :
          sessions' = maintain_connection(sessions, expired, reconnected)
    /\ pc' = "inbound"
    /\ UNCHANGED <<tasks, tick, panicked, resultsRead, histVars, Others>>

\* what the read of each session returns: a session that is not there is not
\* read, a stream that was closed and not replaced stays closed
Inputs ==
    {in \in [SessionIds -> Reads] :
        \A s \in SessionIds :
            /\ ~Live(sessions, s) => in[s].kind = "eof"
            /\ Live(sessions, s) /\ sessions[s].status = "Disconnected" => in[s].kind # "data"}

ProcessInbound ==
    /\ pc = "inbound"
    /\ \E in \in Inputs, order \in Orders(TaskOrder) :
          LET r == process_inbound(sessions, tasks, in, order)
          IN  /\ sessions' = r.sessions
              /\ tasks' = r.tasks
              /\ resultsRead' = r.read
              /\ panicked' = r.panic
              /\ cacheHit' = cacheHit \cup (r.hit \ chunkSent)
              /\ pc' = IF r.panic # None THEN "aborted" ELSE "assign"
    /\ UNCHANGED <<tick, chunkSent, Others>>

AssignTasks ==
    /\ pc = "assign"
    /\ \E w \in assign_tasks(sessions, tasks) :
          /\ sessions' = w.sessions
          /\ tasks' = w.tasks
    /\ pc' = "transfer"
    /\ resultsRead' = [s \in SessionIds |-> NoRead]
    /\ UNCHANGED <<tick, panicked, histVars, Others>>

\* the tasks a ServerModule was pushed for: message_queue only grows in the pass
Enqueued(before, after) ==
    {t \in TaskIds : \E s \in SessionIds :
        \E i \in (Len(before[s].message_queue) + 1)..Len(after[s].message_queue) :
            /\ after[s].message_queue[i].type = "ServerModule"
            /\ after[s].message_queue[i].task_id = t}

TransferChunks ==
    /\ pc = "transfer"
    /\ LET w == transfer_chunks(sessions, tasks)
       IN  /\ sessions' = w.sessions
           /\ tasks' = w.tasks
    /\ pc' = "finalize"
    /\ chunkSent' = chunkSent \cup Enqueued(sessions, sessions')
    /\ UNCHANGED <<tick, panicked, resultsRead, cacheHit, Others>>

FinalizeTransfer ==
    /\ pc = "finalize"
    /\ LET w == finalize_transfer(sessions, tasks)
       IN  /\ sessions' = w.sessions
           /\ tasks' = w.tasks
    /\ pc' = "outbound"
    /\ UNCHANGED <<tick, panicked, resultsRead, histVars, Others>>

ProcessOutbound ==
    /\ pc = "outbound"
    /\ \E failing \in SUBSET {s \in SessionIds : Live(sessions, s)
                                  /\ sessions[s].retries < MaxWriteErrors} :
          sessions' = process_outbound(sessions, failing)
    /\ pc' = "maintain"
    /\ tick' = tick + 1
    /\ UNCHANGED <<tasks, panicked, resultsRead, histVars, Others>>

DispNext ==
    \/ Accept
    \/ MaintainConnection
    \/ ProcessInbound
    \/ AssignTasks
    \/ TransferChunks
    \/ FinalizeTransfer
    \/ ProcessOutbound

SpecDisp == DispInit /\ [][DispNext]_vars

(* ---------------- one scheduler pass over devices of different size ---------------- *)
\* device_ram of a device: one byte short of the task, exactly enough, plenty
RamValues == {RamOverhead + ServerModuleSize - 1, RamOverhead + ServerModuleSize, DeviceRam}

Devices ==
    {[accept_connection EXCEPT !.status = st, !.device_ram = ram, !.modules = ms] :
        st \in {"Connected", "Occupied"}, ram \in RamValues, ms \in SUBSET ModuleIds}

\* a task of an earlier pass: bound to s1, its result applied
CompletedTask ==
    [NewTask EXCEPT !.phase = "Completed", !.assigned_device = "s1", !.result = <<"r1">>]

AssignInit ==
    /\ sessions \in [SessionIds -> Devices]
    /\ tasks \in [TaskIds -> {NewTask, CompletedTask}]
    /\ pc = "assign"
    /\ tick = 0
    /\ panicked = None
    /\ resultsRead = [s \in SessionIds |-> NoRead]
    /\ cacheHit = {}
    /\ chunkSent = {}
    /\ workerIn = << >>
    /\ workerOut = << >>
    /\ workerSt = << >>
    /\ lifeHist = [s \in SessionIds |-> NoAge]
    /\ OutIdle
    /\ self = None
    /\ queued_tasks = None
    /\ CacheStart /\ AsmIdle /\ CodecIdle /\ FrameIdle

SpecAssign == AssignInit /\ [][AssignTasks]_vars

(* ---------------- process_outbound and the bytes on the stream ---------------- *)
\* Message::encode: a frame is a header followed by the payload it announces
encode(m) == <<[frame |-> m, part |-> "header"], [frame |-> m, part |-> "payload"]>>

RECURSIVE EncodeQueue(_)
EncodeQueue(q) == IF q = << >> THEN << >> ELSE encode(Head(q)) \o EncodeQueue(Tail(q))

\* the messages the passes push on a session's queue
OutMessages ==
    {ServerTask(TaskOrder[1], ModuleInfo("m", ServerModuleSize, ServerChunkSize), << >>),
     ServerAckMsg(TaskOrder[1], TRUE)}

MaxEnqueued == 3

\* the body of the loop of process_outbound for one session, on bytes; the
\* stream accepts the first n bytes of the buffer: write_all returns Ok when
\* that is all of it, and an error, after the bytes it had written, otherwise
process_outbound_stream(h, wire, n) ==
    LET out == h.outgoing \o EncodeQueue(h.message_queue)
        drained == [h EXCEPT !.message_queue = << >>, !.outgoing = out]
    IN  IF out = << >> THEN [session |-> drained, wire |-> wire]
        ELSE IF n >= Len(out)
        THEN [session |-> [drained EXCEPT !.outgoing = << >>, !.retries = 0],
              wire |-> wire \o out]
        ELSE [session |-> [drained EXCEPT !.retries = @ + 1],
              wire |-> wire \o SubSeq(out, 1, n)]

OutInit ==
    /\ sessions = [s \in SessionIds |->
                      IF s = SessionOrder[1] THEN accept_connection ELSE NoSession("absent")]
    /\ tasks = [t \in TaskIds |-> NewTask]
    /\ pc = "outbound"
    /\ tick = 0
    /\ panicked = None
    /\ resultsRead = [s \in SessionIds |-> NoRead]
    /\ cacheHit = {}
    /\ chunkSent = {}
    /\ workerIn = << >>
    /\ workerOut = << >>
    /\ workerSt = << >>
    /\ lifeHist = [s \in SessionIds |-> NoAge]
    /\ outWire = [s \in SessionIds |-> << >>]
    /\ outLog = [s \in SessionIds |-> << >>]
    /\ self = None
    /\ queued_tasks = None
    /\ CacheStart /\ AsmIdle /\ CodecIdle /\ FrameIdle

OutRest == <<tasks, pc, tick, panicked, resultsRead, histVars, honestVars, lifeHist, self, queued_tasks,
             cacheVars, asmVars, codecVars, frameVars>>

\* session.message_queue.push_back(message) by one of the passes
OutEnqueue ==
    /\ \E s \in SessionIds, m \in OutMessages :
          /\ Live(sessions, s)
          /\ Len(outLog[s]) < MaxEnqueued
          /\ sessions' = [sessions EXCEPT ![s].message_queue = Append(@, m)]
          /\ outLog' = [outLog EXCEPT ![s] = Append(@, m)]
    /\ UNCHANGED <<outWire, OutRest>>

\* one pass over the sessions; n[s] is what the stream of s accepts
OutProcess ==
    /\ \E n \in [SessionIds -> 0..(2 * MaxEnqueued)] :
          /\ \A s \in SessionIds :
                LET pending == Len(sessions[s].outgoing) + 2 * Len(sessions[s].message_queue)
                IN  /\ n[s] <= pending
                    /\ n[s] < pending => sessions[s].retries < MaxWriteErrors
          /\ sessions' = [s \in SessionIds |->
                             process_outbound_stream(sessions[s], outWire[s], n[s]).session]
          /\ outWire' = [s \in SessionIds |->
                            process_outbound_stream(sessions[s], outWire[s], n[s]).wire]
    /\ UNCHANGED <<outLog, OutRest>>

OutNext == OutEnqueue \/ OutProcess

SpecOut == OutInit /\ [][OutNext]_vars

(* ---------------- the tick loop over the whole life of a session ---------------- *)
\* The same passes with no bound on the number of ticks and a smaller input
\* alphabet: streams close, are replaced, stay silent, report the device or
\* return a result; heartbeats age.
LifeReads ==
    {[kind |-> "eof", msgs |-> << >>], [kind |-> "data", msgs |-> << >>],
     [kind |-> "data", msgs |-> <<ClientReady({}, DeviceRam)>>]}
    \cup {[kind |-> "data", msgs |-> <<ClientResult(t, <<"r1">>)>>] : t \in TaskIds}

LifeInputs ==
    {in \in [SessionIds -> LifeReads] :
        \A s \in SessionIds :
            /\ ~Live(sessions, s) => in[s].kind = "eof"
            /\ Live(sessions, s) /\ sessions[s].status = "Disconnected" => in[s].kind # "data"}

\* elapsed, in seconds, of a session the pass looks at
Ages == {TIMEOUT - 1, TIMEOUT, TIMEOUT + 1}

\* what the pass over one session leaves in lifeHist: the age it saw and the
\* passes that found the session Zombie since the pass that made it one
LifeUpdate(before, after, h, age) ==
    IF after.alive # "live" THEN NoAge
    ELSE IF before.status = "Zombie"
    THEN [age |-> age, passes |-> IF h.passes > MAX_RETRIES THEN h.passes ELSE h.passes + 1]
    ELSE [age |-> age, passes |-> 0]

\* age: elapsed = now - last_heartbeat of each session, whatever its status;
\* lifeHist keeps it for the sessions the pass found Connected (0 otherwise)
LifeMaintain ==
    /\ pc = "maintain"
    /\ \E age \in [SessionIds -> Ages],
          reconnected \in SUBSET {s \in SessionIds : Live(sessions, s) /\ sessions[s].status = "Disconnected"} :
          /\ sessions' = maintain_connection(sessions, {s \in SessionIds : age[s] > TIMEOUT}, reconnected)
          /\ lifeHist' = [s \in SessionIds |->
                             IF Live(sessions, s)
                             THEN LifeUpdate(sessions[s], sessions'[s], lifeHist[s],
                                             IF sessions[s].status = "Connected" THEN age[s] ELSE 0)
                             ELSE NoAge]
    /\ pc' = "inbound"
    /\ UNCHANGED <<tasks, tick, panicked, resultsRead, histVars, cacheVars, asmVars, codecVars, frameVars, honestVars, outVars, self, queued_tasks>>

LifeInbound ==
    /\ pc = "inbound"
    /\ \E in \in LifeInputs :
          \E r \in {process_inbound(sessions, tasks, in, TaskOrder)} :
              /\ sessions' = r.sessions
              /\ tasks' = r.tasks
              /\ resultsRead' = r.read
              /\ panicked' = r.panic
              /\ cacheHit' = cacheHit \cup (r.hit \ chunkSent)
              /\ pc' = IF r.panic # None THEN "aborted" ELSE "assign"
    /\ UNCHANGED <<tick, chunkSent, Others>>

LifeOutbound ==
    /\ pc = "outbound"
    /\ \E failing \in SUBSET {s \in SessionIds : Live(sessions, s)
                                  /\ sessions[s].retries < MaxWriteErrors} :
          sessions' = process_outbound(sessions, failing)
    /\ pc' = "maintain"
    /\ UNCHANGED <<tasks, tick, panicked, resultsRead, histVars, Others>>

LifeNext ==
    \/ Accept
    \/ LifeMaintain
    \/ LifeInbound
    \/ AssignTasks
    \/ TransferChunks
    \/ FinalizeTransfer
    \/ LifeOutbound

SpecLife == DispInit /\ [][LifeNext]_vars

(* ---------------- the dispatcher with workers that follow the protocol ---------------- *)
\* capacity, in messages, of each direction of a worker's stream (duplex(1024))
PipeCap == 6

\* the result the worker computes for a task
WorkerResult(t) == IF t = TaskOrder[1] THEN <<"r1">> ELSE <<"r2">>

IdleWorker == [ready |-> FALSE, cache |-> {}, task |-> None, name |-> None, received |-> << >>]

\* process_client: the worker's answer to one message; returns [st, out]
worker_reply(st, m) ==
    CASE m.type = "ServerTask" ->
           IF m.module.name \in st.cache
           THEN [st |-> st,
                 out |-> <<ClientAck(m.task_id, AckTask(st.cache)),
                           ClientResult(m.task_id, WorkerResult(m.task_id))>>]
           ELSE [st |-> [st EXCEPT !.task = m.task_id, !.name = m.module.name,
                                   !.received = [i \in 1..m.module.total_chunks |-> FALSE]],
                 out |-> <<ClientAck(m.task_id, AckTask(st.cache))>>]
      [] m.type = "ServerModule" ->
           LET ack == ClientAck(m.task_id, AckModule(m.chunk_index, TRUE))
           IN  IF st.task = m.task_id
               THEN LET got == [st.received EXCEPT ![m.chunk_index + 1] = TRUE]
                    IN  IF all(got)
                        THEN [st |-> [st EXCEPT !.cache = @ \cup {st.name}, !.task = None,
                                                !.name = None, !.received = << >>],
                              out |-> <<ack, ClientResult(m.task_id, WorkerResult(m.task_id))>>]
                        ELSE [st |-> [st EXCEPT !.received = got], out |-> <<ack>>]
               ELSE [st |-> st, out |-> <<ack>>]
      [] OTHER -> [st |-> st, out |-> << >>]

\* TestServer::add_session for every stream
HonestInit ==
    /\ sessions = [s \in SessionIds |-> accept_connection]
    /\ tasks = [t \in TaskIds |-> NewTask]
    /\ pc = "maintain"
    /\ tick = 0
    /\ panicked = None
    /\ resultsRead = [s \in SessionIds |-> NoRead]
    /\ cacheHit = {}
    /\ chunkSent = {}
    /\ workerIn = [s \in SessionIds |-> << >>]
    /\ workerOut = [s \in SessionIds |-> << >>]
    /\ workerSt = [s \in SessionIds |-> IdleWorker]
    /\ lifeHist = << >>
    /\ OutIdle
    /\ self = None
    /\ queued_tasks = None
    /\ CacheStart /\ AsmIdle /\ CodecIdle /\ FrameIdle

Quiet == <<cacheVars, asmVars, codecVars, frameVars, lifeHist, outVars, self, queued_tasks>>

\* no stream is lost. last_heartbeat is refreshed by every message the inbound
\* pass decodes; the time between two passes is not bounded (a pass waits for
\* its reads), so a Connected session may be found expired by any pass
HonestMaintain ==
    /\ pc = "maintain"
    /\ \E expired \in SUBSET {s \in SessionIds : Live(sessions, s) /\ sessions[s].status = "Connected"} :
          sessions' = maintain_connection(sessions, expired, {})
    /\ pc' = "inbound"
    /\ UNCHANGED <<tasks, tick, panicked, resultsRead, histVars, honestVars, Quiet>>

\* read_buf(...).await returns once the stream holds something the worker
\* wrote, with a prefix of the pending messages; a session that is not in the
\* world is not read
Takes(s) ==
    IF ~Live(sessions, s) THEN {0} ELSE 1..Len(workerOut[s])

Taken(n) ==
    [s \in SessionIds |-> [kind |-> "data", msgs |-> SubSeq(workerOut[s], 1, n[s])]]

\* the pass awaits the read of each session in turn and is suspended at a stream
\* with nothing to read: it completes when every session had something
HonestInbound ==
    /\ pc = "inbound"
    /\ \A s \in SessionIds : Live(sessions, s) => workerOut[s] # << >>
    /\ \E n \in [SessionIds -> 0..PipeCap], order \in Orders(TaskOrder) :
          /\ \A s \in SessionIds : n[s] \in Takes(s)
          /\ \E r \in {process_inbound(sessions, tasks, Taken(n), order)} :
                 /\ sessions' = r.sessions
                 /\ tasks' = r.tasks
                 /\ resultsRead' = r.read
                 /\ panicked' = r.panic
                 /\ cacheHit' = cacheHit \cup (r.hit \ chunkSent)
                 /\ pc' = IF r.panic # None THEN "aborted" ELSE "assign"
          /\ workerOut' = [s \in SessionIds |->
                              SubSeq(workerOut[s], n[s] + 1, Len(workerOut[s]))]
    /\ UNCHANGED <<tick, chunkSent, workerIn, workerSt, Quiet>>

\* write_all completes once the stream has room for the bytes
HonestOutbound ==
    /\ pc = "outbound"
    /\ \A s \in SessionIds :
          Len(workerIn[s]) + Len(sessions[s].outgoing) + Len(sessions[s].message_queue) <= PipeCap
    /\ sessions' = process_outbound(sessions, {})
    /\ workerIn' = [s \in SessionIds |->
                       workerIn[s] \o sessions[s].outgoing \o sessions[s].message_queue]
    /\ pc' = "maintain"
    /\ UNCHANGED <<tasks, tick, panicked, resultsRead, histVars, workerOut, workerSt, Quiet>>

\* TestClient::handshake: the worker reports its cache and its memory
HonestHandshake(s) ==
    /\ ~workerSt[s].ready
    /\ workerSt' = [workerSt EXCEPT ![s].ready = TRUE]
    /\ workerOut' = [workerOut EXCEPT ![s] = Append(@, ClientReady(workerSt[s].cache, DeviceRam))]
    /\ UNCHANGED <<sessions, tasks, pc, tick, panicked, resultsRead, histVars, workerIn, Quiet>>

\* the worker takes the next message off its stream and answers it
HonestWorker(s) ==
    /\ workerIn[s] # << >>
    /\ \E r \in {worker_reply(workerSt[s], Head(workerIn[s]))} :
           /\ Len(workerOut[s]) + Len(r.out) <= PipeCap
           /\ workerSt' = [workerSt EXCEPT ![s] = r.st]
           /\ workerOut' = [workerOut EXCEPT ![s] = @ \o r.out]
    /\ workerIn' = [workerIn EXCEPT ![s] = Tail(@)]
    /\ UNCHANGED <<sessions, tasks, pc, tick, panicked, resultsRead, histVars, Quiet>>

HonestTick ==
    \/ HonestMaintain
    \/ HonestInbound
    \/ AssignTasks
    \/ TransferChunks
    \/ FinalizeTransfer
    \/ HonestOutbound

HonestNext ==
    \/ HonestTick
    \/ \E s \in SessionIds : HonestHandshake(s)
    \/ \E s \in SessionIds : HonestWorker(s)

\* the tick loop keeps running and every worker keeps handling its stream
SpecHonest ==
    /\ HonestInit
    /\ [][HonestNext]_vars
    /\ WF_vars(HonestTick)
    /\ \A s \in SessionIds : WF_vars(HonestHandshake(s)) /\ WF_vars(HonestWorker(s))

\* C2: a task in Executing or Completed carries no transfer record and a
\* task in Distributing carries one (a task holds at most one record).
C2_TransferMatchesPhase ==
    \A t \in TaskIds :
        /\ tasks[t].phase \in {"Executing", "Completed"} => ~tasks[t].transfer.present
        /\ tasks[t].phase = "Distributing" => tasks[t].transfer.present

\* C3: one finalize_transfer pass turns every task whose transfer bitset is
\* all ones into Executing and removes its record, and leaves the record of
\* a transfer with a false bit attached.
C3_FullBitsetFinalized ==
    [][pc = "finalize" =>
          \A t \in TaskIds :
              tasks[t].transfer.present =>
                  IF all(tasks[t].transfer.acked_chunks)
                  THEN tasks'[t].phase = "Executing" /\ ~tasks'[t].transfer.present
                  ELSE tasks'[t].transfer.present]_vars

\* C4: the assigned device of a task that is not Completed exists and is
\* Occupied.
C4_AssignedDeviceOccupied ==
    \A t \in TaskIds :
        tasks[t].assigned_device # None /\ tasks[t].phase # "Completed" =>
            /\ Live(sessions, tasks[t].assigned_device)
            /\ sessions[tasks[t].assigned_device].status = "Occupied"

\* C5: no input of a worker makes a pass of the dispatcher panic.
C5_NoPanic == panicked = None

\* the ServerAck{t, true} messages in a queue after its first n messages
AcksAfter(queue, n, t) ==
    Cardinality({i \in (n + 1)..Len(queue) : queue[i] = ServerAckMsg(t, TRUE)})

\* C10: at the end of an inbound pass that took ClientResult{t, result} from
\* an Occupied session, t's result is that result, t is Completed, the
\* sender is Connected and the queue of t's assigned session gained exactly
\* one ServerAck{t, true}.
C10_ResultApplied ==
    [][pc = "inbound" /\ panicked' = None =>
          \A s \in SessionIds :
              resultsRead'[s].task \in TaskIds =>
                  LET t == resultsRead'[s].task
                      d == tasks'[t].assigned_device
                  IN  /\ tasks'[t].result = resultsRead'[s].result
                      /\ tasks'[t].phase = "Completed"
                      /\ sessions'[s].status = "Connected"
                      /\ d # None
                      /\ Live(sessions', d)
                      /\ AcksAfter(sessions'[d].message_queue,
                                   Len(sessions[d].message_queue), t) = 1]_vars

\* C11: when the ClientAck{Task} that answers a ServerTask lists the task's
\* module, every bit of the task's record is set by that inbound pass, and no
\* ServerModule is ever enqueued for the task.
C11_CacheHitSendsNoChunk ==
    \A t \in cacheHit :
        /\ t \notin chunkSent
        /\ tasks[t].transfer.present => all(tasks[t].transfer.acked_chunks)

\* a cache hit was taken, the transfer pass ran over the record and the
\* finalize pass removed it
C11_Witness ==
    \E t \in cacheHit :
        /\ ~tasks[t].transfer.present
        /\ tasks[t].assigned_device # None
        /\ pc = "outbound"

\* C12: with workers that answer every ServerTask and ServerModule and then
\* send their result, and ticks that keep running, every task ends up
\* Completed holding its worker's result, and no session is ever removed.
C12_HonestWorkersComplete ==
    /\ <>[](\A t \in TaskIds : /\ tasks[t].phase = "Completed"
                               /\ tasks[t].result = WorkerResult(t))
    /\ [](\A s \in SessionIds : sessions[s].alive = "live")

\* C13: a task's phase moves only along Queued->Distributing,
\* Distributing->Executing, Distributing->Completed, Executing->Completed and
\* Distributing->Failed; in particular no Queued task becomes Completed.
PhaseEdges ==
    {<<"Queued", "Distributing">>, <<"Distributing", "Executing">>,
     <<"Distributing", "Completed">>, <<"Executing", "Completed">>,
     <<"Distributing", "Failed">>}

C13_PhaseEdges ==
    [][\A t \in TaskIds :
          tasks'[t].phase # tasks[t].phase => <<tasks[t].phase, tasks'[t].phase>> \in PhaseEdges]_vars

\* C14: a session's status changes only along Connected->Occupied,
\* Occupied->Connected, Connected->Zombie, Zombie->removed, any status->
\* Disconnected, and Disconnected->Connected.
StatusEdges ==
    {<<"Connected", "Occupied">>, <<"Occupied", "Connected">>, <<"Connected", "Zombie">>,
     <<"Disconnected", "Connected">>}
    \cup {<<st, "Disconnected">> : st \in {"Connected", "Occupied", "Zombie"}}

C14_StatusEdges ==
    [][\A s \in SessionIds :
          /\ Live(sessions, s) /\ Live(sessions', s) /\ sessions'[s].status # sessions[s].status
                => <<sessions[s].status, sessions'[s].status>> \in StatusEdges
          /\ Live(sessions, s) /\ ~Live(sessions', s)
                => sessions[s].status = "Zombie" /\ sessions[s].retries + 1 = MAX_RETRIES
          /\ ~Live(sessions, s) /\ Live(sessions', s)
                => sessions[s].alive = "absent" /\ sessions'[s].status = "Connected"]_vars

\* one session went Connected, Zombie, removed; the other was bound, returned a
\* result, lost its stream and is Connected again after a reconnect
C14_Witness ==
    /\ sessions["s1"].alive = "despawned"
    /\ Live(sessions, "s2") /\ sessions["s2"].status = "Connected"
    /\ \E t \in TaskIds : tasks[t].phase = "Completed" /\ tasks[t].assigned_device = "s2"
    /\ \E t \in TaskIds : tasks[t].phase = "Distributing" /\ tasks[t].assigned_device = "s2"

\* C15: a lifecycle pass turns a Connected session whose heartbeat is more
\* than 32 s old into a Zombie with retries 0 and leaves a Connected session
\* with a younger heartbeat Connected; five further passes after the one that
\* made it a Zombie the session is gone.
C15_ZombieRemovedAfterFive ==
    [][pc = "maintain" /\ pc' = "inbound" =>
          \A s \in SessionIds :
              /\ Live(sessions, s) /\ sessions[s].status = "Connected" /\ lifeHist'[s].age > TIMEOUT
                    => sessions'[s].status = "Zombie" /\ sessions'[s].retries = 0
              /\ Live(sessions, s) /\ sessions[s].status = "Connected" /\ lifeHist'[s].age <= TIMEOUT
                    => sessions'[s].status = "Connected"
              /\ Live(sessions, s) /\ sessions[s].status = "Zombie" /\ lifeHist[s].passes + 1 >= MAX_RETRIES
                    => ~Live(sessions', s)]_vars

\* the devices a popped task can be given: Connected, with room for it, and
\* not given to a task popped before it in this pass
Eligible(t) ==
    {d \in SessionIds :
        /\ Live(sessions, d) /\ sessions[d].status = "Connected"
        /\ sessions[d].device_ram >= TaskRecord(t).size + RamOverhead
        /\ \A u \in TaskIds \ {t} :
              tasks[u].phase = "Queued" /\ TaskRecordLess(TaskRecord(t), TaskRecord(u))
                  => tasks'[u].assigned_device # d}

CachingDevices(t) == {d \in Eligible(t) : TaskRecord(t).module_entity \in sessions[d].modules}

\* C16: the device chosen for a popped task is a caching eligible device when
\* there is one, and then the caching device with the largest RAM; otherwise
\* it is an eligible device with the largest RAM.
C16_DeviceChoice ==
    [][pc = "assign" =>
          \A t \in TaskIds :
              tasks[t].phase = "Queued" /\ tasks'[t].phase = "Distributing" =>
                  LET d == tasks'[t].assigned_device
                      among == IF CachingDevices(t) # {} THEN CachingDevices(t) ELSE Eligible(t)
                  IN  /\ d \in among
                      /\ \A e \in among : sessions[d].device_ram >= sessions[e].device_ram]_vars

IsPrefix(a, b) == Len(a) <= Len(b) /\ a = SubSeq(b, 1, Len(a))

\* C17: the bytes written to a session's stream are the concatenation of the
\* encodings of the messages enqueued on it, in enqueue order, each once;
\* what is not written yet is a suffix of that concatenation.
C17_StreamIsConcatenation ==
    \A s \in SessionIds :
        /\ IsPrefix(outWire[s], EncodeQueue(outLog[s]))
        /\ sessions[s].message_queue = << >> /\ sessions[s].outgoing = << >>
              => outWire[s] = EncodeQueue(outLog[s])

\* C18: a ClientAck{Task} taken by the inbound pass of a tick does not change
\* the cached-module set the scheduler of that tick sees for a device: a
\* session that was Occupied before the pass (only a ClientAck{Task} can replace
\* its set) and is Connected after it, hence a device of this tick's
\* scheduler pass, still has the set it had before the pass.
C18_AckVisibleNextTick ==
    [][pc = "inbound" /\ panicked' = None =>
          \A s \in SessionIds :
              /\ Live(sessions, s) /\ sessions[s].status = "Occupied"
              /\ Live(sessions', s) /\ sessions'[s].status = "Connected"
              => sessions'[s].modules = sessions[s].modules]_vars

(***************************************************************************)
(* The worker session (program/src/session/mod.rs): Session::run calls     *)
(* process_io, process_events and process_state in turn, for ever.         *)
(***************************************************************************)

\* Session::MAX_MODULE_CACHE_SIZE
MAX_MODULE_CACHE_SIZE == 65536
\* reads of the transport that return messages, over the life of the session
MaxWorkerReads == 2
\* messages one read of the transport completes
MaxWorkerBatch == 2

\* SessionState; a variant without a field holds None there
St(kind) == [kind |-> kind, task_id |-> None, transfer |-> None, params |-> << >>, retries |-> 0]

Transferring(t, tr, params) ==
    [kind |-> "Transferring", task_id |-> t, transfer |-> tr, params |-> params, retries |-> 0]

NoAck == [seen |-> FALSE, before |-> None, after |-> None]

\* Session::new; `at` is the call of the run loop that comes next, `read` counts
\* the reads that returned messages, `ack` keeps the state around the last ServerAck
new_session ==
    [state |-> St("Ready"),
     module_cache |-> new_cache(MAX_MODULE_CACHE_SIZE),
     active_tasks |-> {},
     events |-> << >>,
     outgoing |-> << >>,
     at |-> "process_io", read |-> 0, ack |-> NoAck]

\* ModuleCache::keys
keys(c) == DOMAIN c.entries

\* the module descriptors a ServerTask carries: the dispatcher's module, and
\* one that is larger than the whole cache
WorkerModules ==
    {ModuleInfo("m", ServerModuleSize, ServerChunkSize),
     ModuleInfo("big", MAX_MODULE_CACHE_SIZE + 1, MAX_MODULE_CACHE_SIZE + 1)}

\* what the transport can deliver to the worker
WorkerMessages ==
    {ServerTask(t, mod, << >>) : t \in TaskIds, mod \in WorkerModules}
    \cup {ServerModule(t, i, Chunk(ServerModuleSize, ServerChunkSize, i)) :
             t \in TaskIds, i \in 0..(TotalChunks - 1)}
    \cup {ServerModule("t1", TotalChunks, << >>)}
    \cup {ServerAckMsg(t, ok) : t \in TaskIds, ok \in BOOLEAN}
    \cup {Heartbeat(FALSE)}

WorkerBatches ==
    {<<m>> : m \in WorkerMessages}
    \cup (IF MaxWorkerBatch >= 2
          THEN {<<m1, m2>> : m1 \in WorkerMessages, m2 \in WorkerMessages}
          ELSE {})

\* what Transport::read can return
WorkerReads ==
    {[kind |-> "Err", messages |-> << >>]}
    \cup {[kind |-> "Ok", messages |-> b] : b \in WorkerBatches \cup {<< >>}}

\* Session::send_message: the frame is appended to outgoing
send_message(w, message) == [w EXCEPT !.outgoing = Append(@, message)]

\* Session::handle_message; `exec` is what Executor::execute returns. The
\* result is the session and whether the call returned Ok.
handle_message(w, m, exec) ==
    IF m.type = "ServerTask"
    THEN LET w1 == send_message(w, ClientAck(m.task_id, AckTask(keys(w.module_cache))))
             g == get(w1.module_cache, m.module.name)
         IN  IF g.found
             THEN LET w2 == [w1 EXCEPT !.module_cache = g.cache]
                  IN  IF exec = "Ok"
                      THEN [w |-> send_message(w2, ClientResult(m.task_id, <<"r1">>)), ok |-> TRUE]
                      ELSE [w |-> w2, ok |-> FALSE]
             ELSE LET p == put(w1.module_cache, m.module.name, m.module.size)
                      w2 == [w1 EXCEPT !.module_cache = p.cache]
                  IN  IF ~p.ok
                      THEN [w |-> w2, ok |-> FALSE]
                      ELSE IF contains_key(w2.module_cache, m.module.name)
                      THEN [w |-> [w2 EXCEPT !.state =
                                      Transferring(m.task_id, new_transfer(m.module), m.params)],
                            ok |-> TRUE]
                      ELSE [w |-> [w2 EXCEPT !.state = St("Failed")], ok |-> TRUE]
    ELSE IF m.type = "ServerModule"
    THEN IF w.state.kind # "Transferring"
         THEN [w |-> w, ok |-> TRUE]
         ELSE IF w.state.task_id # m.task_id
         THEN [w |-> w, ok |-> FALSE]
         ELSE LET r == add_chunk(w.state.transfer, w.module_cache, m.chunk_index, m.chunk_data)
                  w1 == [w EXCEPT !.module_cache = r.cache, !.state.transfer = r.transfer]
              IN  IF r.ok
                  THEN LET w2 == send_message(w1, ClientAck(m.task_id, AckModule(m.chunk_index, TRUE)))
                       IN  IF is_complete(r.transfer)
                           THEN LET g == get(w2.module_cache, r.transfer.name)
                                    w3 == [w2 EXCEPT !.module_cache = g.cache]
                                IN  IF ~g.found \/ exec # "Ok"
                                    THEN [w |-> w3, ok |-> FALSE]
                                    ELSE [w |-> [send_message(w3, ClientResult(m.task_id, <<"r1">>))
                                                   EXCEPT !.state = St("Completed")],
                                          ok |-> TRUE]
                           ELSE [w |-> w2, ok |-> TRUE]
                  ELSE [w |-> [send_message(w1, ClientAck(m.task_id, AckModule(m.chunk_index, FALSE)))
                                 EXCEPT !.state.retries = @ + 1],
                        ok |-> FALSE]
    ELSE IF m.type = "ServerAck"
    THEN [w |-> [w EXCEPT !.active_tasks = @ \ {m.task_id}], ok |-> TRUE]
    ELSE [w |-> w, ok |-> TRUE]

\* the state around the ServerAck handled last
NoteAck(before, after, m) ==
    IF m.type = "ServerAck"
    THEN [after EXCEPT !.ack = [seen |-> TRUE, before |-> before.state.kind,
                                after |-> after.state.kind]]
    ELSE after

\* Session::process_events: events are popped from the front until the queue
\* is empty or one of them ends the loop
RECURSIVE process_events(_, _)
process_events(w, exec) ==
    IF w.events = << >> THEN w
    ELSE LET event == Head(w.events)
             w1 == [w EXCEPT !.events = Tail(@)]
         IN  IF event.type = "TaskTimeout"
             THEN IF w1.state.kind = "Executing" /\ w1.state.task_id = event.task_id
                  THEN [w1 EXCEPT !.state = St("Failed")]
                  ELSE process_events(w1, exec)
             ELSE LET r == handle_message(w1, event, exec)
                  IN  IF ~r.ok
                      THEN [r.w EXCEPT !.state = St("Failed")]
                      ELSE process_events(NoteAck(w1, r.w, event), exec)

\* the ways the write loop can go in which a write returns an error
WriteErrors == {"ErrOk", "ErrZero", "ErrAlways"}
WriteOutcomes == {"Ok", "Zero"} \cup WriteErrors

\* Session::process_io. `read` is what Transport::read did: Err, or Ok with
\* the messages decoded from the bytes it returned (none for Ok(0)). `write` is how
\* the write loop went when outgoing was not empty: "Ok" (every byte taken),
\* "Zero" (a write of 0 bytes ended the loop), "ErrOk" and "ErrZero" (a write
\* failed first; the loop went on and ended in one of the two ways), "ErrAlways"
\* (every write fails: the loop never ends).
process_io(w, read, write) ==
    LET w1 == IF read.kind = "Err" THEN [w EXCEPT !.state = St("Failed")]
              ELSE IF read.messages = << >> THEN w
              ELSE [w EXCEPT !.events = @ \o read.messages, !.read = @ + 1]
        w2 == IF w1.outgoing = << >> THEN w1
              ELSE IF write \in WriteErrors THEN [w1 EXCEPT !.state = St("Failed")]
              ELSE w1
    IN  IF w2.outgoing # << >> /\ write \in {"Ok", "ErrOk"}
        THEN [w2 EXCEPT !.outgoing = << >>]
        ELSE w2

\* Session::process_state; `late` is clock.timestamp() > deadline
process_state(w, late) ==
    IF w.state.kind = "Transferring"
    THEN IF w.state.retries > 3
         THEN [send_message(w, ClientAck(w.state.task_id, AckTask(keys(w.module_cache))))
                 EXCEPT !.state = St("Failed")]
         ELSE w
    ELSE IF w.state.kind = "Executing" /\ late
    THEN [w EXCEPT !.events = Append(@, [type |-> "TaskTimeout", task_id |-> w.state.task_id])]
    ELSE w

WorkerInit ==
    /\ self = new_session
    /\ queued_tasks = None
    /\ sessions = << >>
    /\ tasks = << >>
    /\ pc = None
    /\ tick = 0
    /\ panicked = None
    /\ resultsRead = << >>
    /\ cacheHit = {}
    /\ chunkSent = {}
    /\ workerIn = << >>
    /\ workerOut = << >>
    /\ workerSt = << >>
    /\ lifeHist = << >>
    /\ OutIdle
    /\ CacheStart /\ AsmIdle /\ CodecIdle /\ FrameIdle

WorkerRest ==
    <<cacheVars, asmVars, codecVars, frameVars, sessions, tasks, pc, tick, panicked,
      resultsRead, histVars, honestVars, lifeHist, outVars, queued_tasks>>

\* a write loop that never ends leaves the worker in it ("write_loop")
WorkerIo ==
    /\ self.at = "process_io"
    /\ \E read \in WorkerReads, write \in WriteOutcomes :
          /\ self.outgoing = << >> => write = "Ok"
          /\ read.messages # << >> => self.read < MaxWorkerReads
          /\ self' = [process_io(self, read, write) EXCEPT
                         !.at = IF write = "ErrAlways" THEN "write_loop" ELSE "process_events"]
    /\ UNCHANGED WorkerRest

WorkerEvents ==
    /\ self.at = "process_events"
    /\ \E exec \in {"Ok", "Err"} :
          self' = [process_events(self, exec) EXCEPT !.at = "process_state"]
    /\ UNCHANGED WorkerRest

WorkerState ==
    /\ self.at = "process_state"
    /\ \E late \in BOOLEAN :
          self' = [process_state(self, late) EXCEPT !.at = "process_io"]
    /\ UNCHANGED WorkerRest

WorkerNext == WorkerIo \/ WorkerEvents \/ WorkerState

SpecWorker == WorkerInit /\ [][WorkerNext]_vars

\* C19: once the worker's session state is Failed, no message handled later
\* and no later call of the run loop changes it to any other state.
C19_FailedIsTerminal ==
    [][self.state.kind = "Failed" => self'.state.kind = "Failed"]_vars

\* C20: right after the worker has handled a ServerAck its session state is
\* Ready, whatever state other than Failed it was in before.
C20_AckReturnsToReady ==
    (self.ack.seen /\ self.ack.before # "Failed") => self.ack.after = "Ready"

\* the message sent last is the answer to a rejected chunk
LastIsFailedChunkAck(w) ==
    /\ w.outgoing # << >>
    /\ LET m == w.outgoing[Len(w.outgoing)]
       IN  m.type = "ClientAck" /\ m.ack_info.kind = "Module" /\ ~m.ack_info.success

\* C21: a pass of process_events that ends with the answer to a chunk the
\* assembler rejected (ClientAck{Module, chunk_index, success = false}) leaves
\* the worker Transferring with the retries counter one higher; the rejection
\* itself does not make the worker Failed.
C21_RejectedChunkKeepsTransferring ==
    [][(/\ self.at = "process_events"
        /\ self.state.kind = "Transferring"
        /\ Len(self'.outgoing) > Len(self.outgoing)
        /\ LastIsFailedChunkAck(self'))
          => /\ self'.state.kind = "Transferring"
             /\ self'.state.retries = self.state.retries + 1]_vars

\* C22: the finalize_transfer pass that finds the ack bitset of task T full,
\* with T assigned to the live device D, leaves T's required module in D's
\* cached-module set.
C22_FinalizedModuleCached ==
    [][pc = "finalize" =>
          \A t \in TaskIds :
              (/\ tasks[t].transfer.present
               /\ all(tasks[t].transfer.acked_chunks)
               /\ tasks[t].assigned_device # None
               /\ Live(sessions, tasks[t].assigned_device))
                 => Task(t).require_module \in sessions'[tasks[t].assigned_device].modules]_vars

\* the tasks and the sessions an assign_tasks pass touched
BoundTasks == {t \in TaskIds : tasks'[t] # tasks[t]}
BoundSessions == {d \in SessionIds : sessions'[d] # sessions[d]}

\* C23: the assignments of one assign_tasks pass form a one-to-one matching:
\* every bound task was Queued, every bound session was Connected at the
\* start of the pass and has device_ram >= module size + 2048, no session
\* serves two tasks and no task two sessions.
C23_PassIsMatching ==
    [][pc = "assign" =>
          /\ \A t \in BoundTasks :
                /\ tasks[t].phase = "Queued"
                /\ tasks'[t].assigned_device \in BoundSessions
          /\ \A t \in BoundTasks, u \in BoundTasks :
                t # u => tasks'[t].assigned_device # tasks'[u].assigned_device
          /\ \A d \in BoundSessions :
                /\ Live(sessions, d) /\ sessions[d].status = "Connected"
                /\ \E t \in BoundTasks :
                      /\ tasks'[t].assigned_device = d
                      /\ sessions[d].device_ram >= Len(Module(Task(t).require_module).binary) + 2048]_vars

\* both tasks were bound in one pass, each to a device of its own
C23_Witness ==
    /\ pc = "transfer"
    /\ \A t \in TaskIds : tasks[t].phase = "Distributing"
    /\ tasks["t1"].assigned_device # tasks["t2"].assigned_device
    /\ \A t \in TaskIds : sessions[tasks[t].assigned_device].status = "Occupied"

\* ceil(size / chunk_size), as the least n with n * chunk_size >= size
CeilDiv(size, chunk_size) == CHOOSE n \in 0..size : n * chunk_size >= size /\ (n - 1) * chunk_size < size

\* C24: a task T bound to session D by an assign_tasks pass is Distributing
\* with assigned_device D, D is Occupied, D's queue gained exactly one message,
\* ServerTask{T, descriptor, params} with total_chunks = ceil(size/chunk_size),
\* and T has a Pending transfer record with total_chunks false bits; tasks and
\* sessions not bound in the pass are unchanged.
C24_BindingEffect ==
    [][pc = "assign" =>
          LET bound == {t \in TaskIds : tasks[t].phase = "Queued" /\ tasks'[t].phase = "Distributing"}
          IN  /\ \A t \in bound :
                    LET d == tasks'[t].assigned_device
                        mod == Module(Task(t).require_module)
                        n == CeilDiv(Len(mod.binary), mod.chunk_size)
                    IN  /\ d \in SessionIds
                        /\ sessions'[d].status = "Occupied"
                        /\ sessions'[d].message_queue =
                              Append(sessions[d].message_queue,
                                     [type |-> "ServerTask", task_id |-> t,
                                      module |-> [name |-> mod.name, size |-> Len(mod.binary),
                                                  chunk_size |-> mod.chunk_size, total_chunks |-> n],
                                      params |-> Task(t).params])
                        /\ sessions'[d] = [sessions[d] EXCEPT !.status = "Occupied",
                                                              !.message_queue = sessions'[d].message_queue]
                        /\ tasks'[t] = [tasks[t] EXCEPT
                                           !.phase = "Distributing", !.assigned_device = d,
                                           !.transfer = [present |-> TRUE, state |-> "Pending",
                                                         acked_chunks |-> [i \in 1..n |-> FALSE],
                                                         session |-> d]]
              /\ \A t \in TaskIds \ bound : tasks'[t] = tasks[t]
              /\ \A d \in SessionIds :
                    (\A t \in bound : tasks'[t].assigned_device # d) => sessions'[d] = sessions[d]]_vars

\* a pass bound one task and left the other Queued for want of a device
C24_Witness ==
    /\ pc = "transfer"
    /\ \E t \in TaskIds, u \in TaskIds :
          /\ tasks[t].phase = "Distributing" /\ tasks[t].transfer.state = "Pending"
          /\ Len(sessions[tasks[t].assigned_device].message_queue) = 1
          /\ tasks[u].phase = "Queued"

(***************************************************************************)
(* The heap of assign_tasks on its own: TaskRecord::cmp and the order in   *)
(* which BinaryHeap::pop hands the queued tasks to the devices.            *)
(***************************************************************************)

\* binary sizes and priorities of the queued tasks
HeapSizes == 1..3
HeapPriorities == 1..2
\* devices in device_map at the start of the pass, each with room for any task
MaxHeapDevices == 2

\* the TaskRecord structs the heap is built from, one per task entity
TaskRecords ==
    [entity : TaskIds, module_entity : ModuleIds, size : HeapSizes,
     chunk_size : {ServerChunkSize}, priority : HeapPriorities]

\* BinaryHeap::pop on a heap of TaskRecords: the greatest by TaskRecord::cmp
pop(heap) == CHOOSE r \in heap : \A u \in heap \ {r} : TaskRecordLess(u, r)

HeapInit ==
    /\ \E recs \in SUBSET TaskRecords, n \in 0..MaxHeapDevices :
          /\ \A a \in recs, b \in recs : a.entity = b.entity => a = b
          /\ queued_tasks = [heap |-> recs, popped |-> << >>, bound |-> {}, devices |-> n]
    /\ self = None
    /\ sessions = << >>
    /\ tasks = << >>
    /\ pc = None
    /\ tick = 0
    /\ panicked = None
    /\ resultsRead = << >>
    /\ cacheHit = {}
    /\ chunkSent = {}
    /\ workerIn = << >>
    /\ workerOut = << >>
    /\ workerSt = << >>
    /\ lifeHist = << >>
    /\ OutIdle
    /\ CacheStart /\ AsmIdle /\ CodecIdle /\ FrameIdle

\* one turn of while let Some(task_record) = queued_tasks.pop(): the record
\* is bound when a device is left, and the device leaves device_map
HeapPop ==
    /\ queued_tasks.heap # {}
    /\ LET task_record == pop(queued_tasks.heap)
       IN  queued_tasks' =
               [heap |-> queued_tasks.heap \ {task_record},
                popped |-> Append(queued_tasks.popped, task_record),
                bound |-> IF queued_tasks.devices > 0
                          THEN queued_tasks.bound \cup {task_record}
                          ELSE queued_tasks.bound,
                devices |-> IF queued_tasks.devices > 0
                            THEN queued_tasks.devices - 1 ELSE 0]
    /\ UNCHANGED <<cacheVars, asmVars, codecVars, frameVars, sessions, tasks, pc, tick, panicked,
                   resultsRead, histVars, honestVars, lifeHist, outVars, self>>

SpecHeap == HeapInit /\ [][HeapPop]_vars

\* C25: the record popped from the heap is at least as large as every record
\* still in it, so a larger queued task is matched before any smaller one
\* and the tasks left Queued when devices run out are the smallest.
C25_LargestPoppedFirst ==
    [][\A r \in queued_tasks.heap \ queued_tasks'.heap :
          \A u \in queued_tasks'.heap : r.size >= u.size]_vars

\* C26: assign_tasks is deterministic: from one world state a pass can end in
\* one task-to-device assignment only, also when eligible devices tie on RAM
\* and cache status.
C26_AssignDeterministic ==
    pc = "assign" => Cardinality({w.tasks : w \in assign_tasks(sessions, tasks)}) = 1

\* what a pass appended to the queue of session s
Appended(s) ==
    SubSeq(sessions'[s].message_queue, Len(sessions[s].message_queue) + 1,
           Len(sessions'[s].message_queue))

\* the ServerModule messages for task t among q
ChunksFor(q, t) == SelectSeq(q, LAMBDA m : m.type = "ServerModule" /\ m.task_id = t)

\* bytes [i * chunk_size, min((i + 1) * chunk_size, size)) of a binary
ByteRange(binary, chunk_size, i) ==
    LET lo == i * chunk_size
        hi == IF (i + 1) * chunk_size < Len(binary) THEN (i + 1) * chunk_size ELSE Len(binary)
    IN  [k \in 1..(hi - lo) |-> binary[lo + k]]

\* one ServerModule per index from i on whose ack bit is false, ascending
RECURSIVE ExpectedChunks(_, _, _)
ExpectedChunks(t, acked, i) ==
    IF i >= Len(acked) THEN << >>
    ELSE LET mod == Module(Task(t).require_module)
         IN  (IF acked[i + 1] THEN << >>
              ELSE <<[type |-> "ServerModule", task_id |-> t, chunk_index |-> i,
                      chunk_data |-> ByteRange(mod.binary, mod.chunk_size, i)]>>)
             \o ExpectedChunks(t, acked, i + 1)

\* C27: a transfer_chunks pass appends, for a transfer in sub-state Requested,
\* exactly one ServerModule per chunk index whose ack bit is false to the
\* target session's queue, in ascending index order, each with its byte range
\* of the module, and sets the sub-state to Transferring; a transfer that is
\* Pending or Transferring emits nothing and is left as it was.
C27_RequestedSendsUnacked ==
    [][pc = "transfer" =>
          /\ \A t \in TaskIds :
                LET tr == tasks[t].transfer
                IN  IF tr.present /\ tr.state = "Requested"
                    THEN /\ tasks'[t] = [tasks[t] EXCEPT !.transfer.state = "Transferring"]
                         /\ Live(sessions, tr.session) =>
                               ChunksFor(Appended(tr.session), t) = ExpectedChunks(t, tr.acked_chunks, 0)
                         /\ \A s \in SessionIds \ {tr.session} : ChunksFor(Appended(s), t) = << >>
                    ELSE /\ tasks'[t] = tasks[t]
                         /\ \A s \in SessionIds : ChunksFor(Appended(s), t) = << >>
          /\ \A s \in SessionIds :
                /\ IsPrefix(sessions[s].message_queue, sessions'[s].message_queue)
                /\ \A i \in 1..Len(Appended(s)) :
                      /\ Appended(s)[i].type = "ServerModule"
                      /\ Appended(s)[i].task_id \in TaskIds
                /\ sessions'[s] = [sessions[s] EXCEPT !.message_queue = sessions'[s].message_queue]]_vars

\* a pass found a Requested transfer whose first chunk was acknowledged and
\* enqueued the second chunk alone
C27_Witness ==
    /\ pc = "finalize"
    /\ \E t \in TaskIds :
          /\ tasks[t].transfer.present /\ tasks[t].transfer.state = "Transferring"
          /\ tasks[t].transfer.acked_chunks = <<TRUE, FALSE>>
          /\ Live(sessions, tasks[t].transfer.session)
          /\ ChunksFor(sessions[tasks[t].transfer.session].message_queue, t)
                = ExpectedChunks(t, <<TRUE, FALSE>>, 0)

\* what a pass of process_events sent
Sent == SubSeq(self'.outgoing, Len(self.outgoing) + 1, Len(self'.outgoing))

\* the pass handles the single event m
Handles(m) == self.at = "process_events" /\ self.events = <<m>>

\* the answer to ServerTask m that lists the names the cache holds before the pass
TaskAck(m) == ClientAck(m.task_id, AckTask(DOMAIN self.module_cache.entries))

IsResultFor(x, t) == x.type = "ClientResult" /\ x.task_id = t

\* the slot of the module's declared size is there and the state is
\* Transferring{task_id, retries = 0}
SlotReserved(m) ==
    /\ m.module.name \in DOMAIN self'.module_cache.entries
    /\ Len(self'.module_cache.entries[m.module.name].data) = m.module.size
    /\ self'.state.kind = "Transferring"
    /\ self'.state.task_id = m.task_id
    /\ self'.state.retries = 0

\* the module of ServerTask m is in the cache with all its bytes
Resident(m) ==
    /\ m.module.name \in DOMAIN self.module_cache.entries
    /\ self.module_cache.entries[m.module.name].data = Binary(m.module.size)

HandlesChunk(m) ==
    /\ Handles(m) /\ m.type = "ServerModule"
    /\ self.state.kind = "Transferring" /\ self.state.task_id = m.task_id

\* what the assembler says to the chunk of m
Offered(m) == add_chunk(self.state.transfer, self.module_cache, m.chunk_index, m.chunk_data)

AllReceived(tr) == \A i \in 1..tr.total_chunks : tr.received[i]

ChunkAck(m, success) == ClientAck(m.task_id, AckModule(m.chunk_index, success))

\* C29 as stated: while the worker is Transferring with a matching task id
\* each handled ServerModule produces exactly one ClientAck{Module,
\* chunk_index, success}, success iff the assembler accepted the chunk; the
\* ClientResult is emitted once, right after the successful ack of the last
\* missing chunk and not before all chunks were accepted, and the state is
\* then Completed.
C29_ChunkAnswered ==
    [][\A m \in WorkerMessages :
          HandlesChunk(m) =>
              /\ Sent # << >> /\ Sent[1] = ChunkAck(m, Offered(m).ok)
              /\ IF Offered(m).ok /\ AllReceived(Offered(m).transfer)
                 THEN /\ Len(Sent) = 2 /\ IsResultFor(Sent[2], m.task_id)
                      /\ self'.state.kind = "Completed"
                 ELSE Len(Sent) = 1]_vars

\* C29 amended: as stated, except that when the last missing chunk was
\* accepted and the executor returns an error, the ack is followed by no
\* ClientResult and the state becomes Failed; an accepted chunk that is not
\* the last missing one leaves the worker Transferring with the chunk recorded.
C29_ChunkAnsweredOrFailed ==
    [][\A m \in WorkerMessages :
          HandlesChunk(m) =>
              /\ Sent # << >> /\ Sent[1] = ChunkAck(m, Offered(m).ok)
              /\ IF Offered(m).ok /\ AllReceived(Offered(m).transfer)
                 THEN \/ /\ Len(Sent) = 2 /\ IsResultFor(Sent[2], m.task_id)
                         /\ self'.state.kind = "Completed"
                      \/ /\ Len(Sent) = 1
                         /\ self'.state.kind = "Failed"
                 ELSE /\ Len(Sent) = 1
                      /\ Offered(m).ok =>
                            /\ self'.state.kind = "Transferring"
                            /\ self'.state.transfer = Offered(m).transfer]_vars

\* the pass that took the last missing chunk sent its ack and the result, and
\* the worker is Completed with the whole module in its cache
C29_Witness ==
    /\ self.at = "process_state"
    /\ self.state.kind = "Completed"
    /\ Len(self.outgoing) >= 2
    /\ LET n == Len(self.outgoing)
       IN  /\ self.outgoing[n - 1].type = "ClientAck"
           /\ self.outgoing[n - 1].ack_info.kind = "Module"
           /\ self.outgoing[n - 1].ack_info.success
           /\ IsResultFor(self.outgoing[n], self.outgoing[n - 1].task_id)
    /\ self.module_cache.entries["m"].data = Binary(ServerModuleSize)

\* C30: add_chunk(index, bytes) on a transfer of N chunks fails with InvalidChunkIndex
\* when index >= N, with DuplicateChunk when the index was already accepted, with
\* InvalidChunkSize when the length differs from chunk_size (index < N - 1) or from
\* size - chunk_size * (N - 1) (index = N - 1), and succeeds in every other case
C30_ChunkErrors ==
    asmRes.op = "add_chunk" =>
        LET N == transfer.total_chunks
            wanted == IF asmRes.index = N - 1
                      THEN transfer.size - transfer.chunk_size * (N - 1)
                      ELSE transfer.chunk_size
        IN  IF asmRes.index >= N
            THEN ~asmRes.ok /\ asmRes.err = "InvalidChunkIndex"
            ELSE IF asmRes.dup
            THEN ~asmRes.ok /\ asmRes.err = "DuplicateChunk"
            ELSE IF asmRes.len # wanted
            THEN ~asmRes.ok /\ asmRes.err = "InvalidChunkSize"
            ELSE asmRes.ok /\ transfer.received[asmRes.index + 1]

\* a full chunk_size offer for the short last chunk of a module whose size is no
\* multiple of chunk_size was refused with InvalidChunkSize, an earlier chunk being in
C30_Witness ==
    /\ asmRes.op = "add_chunk"
    /\ asmRes.index = transfer.total_chunks - 1
    /\ transfer.size < transfer.chunk_size * transfer.total_chunks
    /\ asmRes.len = transfer.chunk_size
    /\ ~asmRes.ok
    /\ asmRes.err = "InvalidChunkSize"
    /\ \E i \in 1..Len(transfer.received) : transfer.received[i]

\* the bytes of the assembler's cache slot
SlotData(c, t) == c.entries[t.name].data

\* C31: a chunk's bit is set only by a call that wrote its bytes into the cache slot
\* at offset index * chunk_size, the bitset always has exactly total_chunks bits, a
\* rejected add_chunk leaves the received bitset and the slot's bytes and length
\* unchanged, and the slot keeps the length given to put throughout chunk receipt
C31_ChunkFrame ==
    [][asmRes'.op = "add_chunk" =>
        /\ Len(transfer'.received) = transfer'.total_chunks
        /\ Len(SlotData(cache', transfer')) = Len(SlotData(cache, transfer))
        /\ Len(SlotData(cache', transfer')) = transfer.size
        /\ ~asmRes'.ok =>
              /\ transfer'.received = transfer.received
              /\ SlotData(cache', transfer') = SlotData(cache, transfer)
        /\ \A i \in 1..Len(transfer.received) :
              (transfer'.received[i] /\ ~transfer.received[i]) =>
                  /\ asmRes'.ok /\ asmRes'.index = i - 1
                  /\ LET offset == (i - 1) * transfer.chunk_size
                     IN  SubSeq(SlotData(cache', transfer'), offset + 1, offset + asmRes'.len)
                             = Chunk(transfer.size, transfer.chunk_size, i - 1)
                  /\ \A j \in 1..transfer.size :
                        (j <= (i - 1) * transfer.chunk_size
                            \/ j > (i - 1) * transfer.chunk_size + asmRes'.len)
                        => SlotData(cache', transfer')[j] = SlotData(cache, transfer)[j]
    ]_vars

\* a chunk one byte short was refused after another chunk had been written: the bits
\* and the slot are those of the single accepted chunk
C31_Witness ==
    /\ asmRes.op = "add_chunk"
    /\ ~asmRes.ok /\ asmRes.err = "InvalidChunkSize"
    /\ ~transfer.received[asmRes.index + 1]
    /\ \E i \in 1..Len(transfer.received) : transfer.received[i]
    /\ \E j \in 1..transfer.size : SlotData(cache, transfer)[j] # 0

\* C32: for a transfer with N >= 1 chunks is_complete() is false until add_chunk has
\* succeeded for every index 0..N-1 (the slot, zero-filled by put, then holds every
\* chunk's bytes) and true from then on; with the chunks of a 3-chunk module arriving
\* in the order 2, 0, 1 it is false after the first and the second and true after the third
C32_CompleteIffAllChunks ==
    [][/\ transfer.total_chunks >= 1 =>
             /\ is_complete(transfer) <=> SlotData(cache, transfer) = Binary(transfer.size)
             /\ is_complete(transfer') <=> SlotData(cache', transfer') = Binary(transfer.size)
       /\ is_complete(transfer) => is_complete(transfer')
       /\ (transfer.total_chunks = 3 /\ asmRes'.ok) =>
             /\ transfer.received = <<FALSE, FALSE, FALSE>> => ~is_complete(transfer')
             /\ (transfer.received = <<FALSE, FALSE, TRUE>> /\ asmRes'.index = 0)
                    => ~is_complete(transfer')
             /\ (transfer.received = <<TRUE, FALSE, TRUE>> /\ asmRes'.index = 1)
                    => is_complete(transfer')
    ]_vars

\* the 3-chunk module with a short last chunk is complete and the chunk accepted last
\* was chunk 1, chunks 2 and 0 having come before it
C32_Witness ==
    /\ transfer.total_chunks = 3
    /\ transfer.size < 3 * transfer.chunk_size
    /\ asmRes.op = "add_chunk" /\ asmRes.ok /\ asmRes.index = 1
    /\ is_complete(transfer)
    /\ SlotData(cache, transfer) = Binary(transfer.size)

\* the step is the call put(key, size)
IsPut(key, size) ==
    /\ cacheRes'.op = "put" /\ cacheRes'.key = key
    /\ cache' = put(cache, key, size).cache
    /\ cacheRes'.ok = put(cache, key, size).ok

\* C33: after a successful put(name, size) the cache holds under name a buffer of
\* exactly size bytes, all zero, with usage counter 1, whether or not name existed
\* before; a previous entry of that name is dropped first and its bytes no longer
\* count against the capacity (a put that fits once they are freed evicts nothing)
C33_PutFreshSlot ==
    [][\A key \in Keys, size \in PutSizes :
        IsPut(key, size) =>
          /\ cacheRes'.ok =>
                /\ key \in DOMAIN cache'.entries
                /\ Len(cache'.entries[key].data) = size
                /\ \A i \in 1..size : cache'.entries[key].data[i] = 0
                /\ cache'.entries[key].access = 1
                /\ StoredBytes(cache') <= cache'.capacity
          /\ (/\ key \in DOMAIN cache.entries
              /\ size <= cache.capacity - (StoredBytes(cache) - Len(cache.entries[key].data)))
             => /\ cacheRes'.ok
                /\ evictLog' = << >>
                /\ \A k \in (DOMAIN cache.entries) \ {key} :
                      k \in DOMAIN cache'.entries /\ cache'.entries[k] = cache.entries[k]
    ]_vars

\* put("k1", 10) succeeded without an eviction next to a used entry k2 of 5 bytes:
\* the cache is filled to its capacity and k1 is zero-filled with counter 1
C33_Witness ==
    /\ cacheRes.op = "put" /\ cacheRes.ok /\ cacheRes.key = "k1"
    /\ evictLog = << >>
    /\ Len(cache.entries["k1"].data) = 10
    /\ cache.entries["k1"].access = 1
    /\ cache.entries["k1"].data = Zeros(10)
    /\ "k2" \in DOMAIN cache.entries
    /\ Len(cache.entries["k2"].data) = 5
    /\ cache.entries["k2"].access > 1

\* a's score access^2 / size is at most b's, by the integer cross product
ScoreAtMost(a, b) == a.access * a.access * Len(b.data) <= b.access * b.access * Len(a.data)

\* C34: put(name, size) fails with CacheFull exactly when size is larger than the
\* capacity; for every size <= capacity it succeeds, evicting entries one at a time in
\* increasing score order and stopping as soon as capacity - allocated >= size (no
\* entry is evicted when the free space already suffices)
C34_CacheFullIffTooLarge ==
    [][\A key \in Keys, size \in PutSizes :
        IsPut(key, size) =>
          /\ cacheRes'.ok <=> size <= cache.capacity
          /\ ~cacheRes'.ok => cacheRes'.err = "CacheFull"
          /\ \A i \in 1..Len(evictLog') :
                /\ evictLog'[i].victim \in DOMAIN evictLog'[i].before
                /\ cache.capacity - SumLen(evictLog'[i].before, DOMAIN evictLog'[i].before) < size
                /\ i < Len(evictLog') =>
                      /\ evictLog'[i + 1].before = Remove(evictLog'[i].before, evictLog'[i].victim)
                      /\ ScoreAtMost(evictLog'[1].before[evictLog'[i].victim],
                                     evictLog'[1].before[evictLog'[i + 1].victim])
          /\ evictLog' # << >> => evictLog'[1].before = Remove(cache.entries, key)
          /\ cacheRes'.ok =>
                DOMAIN cache'.entries =
                    ((DOMAIN cache.entries) \ {evictLog'[i].victim : i \in 1..Len(evictLog')})
                        \cup {key}
    ]_vars

\* a put that fits the capacity succeeded after evicting two entries, the one of the
\* strictly lower score first
C34_Witness ==
    /\ cacheRes.op = "put" /\ cacheRes.ok
    /\ Len(evictLog) = 2
    /\ ~ScoreAtMost(evictLog[1].before[evictLog[2].victim],
                    evictLog[1].before[evictLog[1].victim])
    /\ DOMAIN cache.entries = {cacheRes.key}

\* the step is the call put_slice(key, offset, bytes) on an existing slot
IsPutSlice(key, offset, bytes) ==
    /\ cacheRes'.op = "put_slice" /\ cacheRes'.key = key
    /\ key \in DOMAIN cache.entries
    /\ cache' = put_slice(cache, key, offset, bytes).cache
    /\ cacheRes'.ok = put_slice(cache, key, offset, bytes).ok

\* C35: put_slice(name, offset, data) fails, leaving the slot's bytes, length and
\* usage counter unchanged, whenever offset + data.length exceeds the slot's declared
\* length; it never enlarges a slot beyond the size given to put
C35_SliceWithinSlot ==
    [][\A key \in Keys, sl \in Slices, b \in FillBytes :
        IsPutSlice(key, sl[1], Fill(sl[2], b)) =>
          /\ Len(cache'.entries[key].data) = Len(cache.entries[key].data)
          /\ sl[1] + sl[2] > Len(cache.entries[key].data) =>
                /\ ~cacheRes'.ok
                /\ cache'.entries[key] = cache.entries[key]
    ]_vars

\* C36: every dispatcher tick terminates whichever sessions have pending input: an
\* inbound pass that has begun is left for the scheduler, the distributor and the
\* outbound pass even while a session has no bytes to read
C36_TickTerminates == (pc = "inbound") ~> (pc # "inbound")

\* C37: the worker invokes the executor for a module only when every byte of the
\* module's slot was written by the accepted chunks of a completed transfer: a
\* ServerTask for a module whose slot is not whole (reserved by put for a transfer
\* that was abandoned) sends no ClientResult, and no ClientAck{Task} lists a name
\* whose slot is not whole
C37_ExecutesOnlyWholeModules ==
    [][\A m \in WorkerMessages :
          Handles(m) /\ m.type = "ServerTask" =>
              /\ ~Resident(m) => \A i \in 1..Len(Sent) : ~IsResultFor(Sent[i], m.task_id)
              /\ \A i \in 1..Len(Sent) :
                    (Sent[i].type = "ClientAck" /\ Sent[i].ack_info.kind = "Task") =>
                        \A name \in Sent[i].ack_info.modules :
                            \E mod \in WorkerModules :
                                /\ mod.name = name
                                /\ self.module_cache.entries[name].data = Binary(mod.size)]_vars

\* C38: a task's result and its Completed phase are set only by a ClientResult that
\* arrived on the session recorded as the task's assigned_device; a ClientResult
\* naming a task that is assigned to another session, or to none, changes neither
\* that task nor the status of the session that sent it
C38_ResultFromAssignedDevice ==
    [][pc = "inbound" /\ panicked' = None =>
          /\ \A t \in TaskIds :
                (\/ tasks'[t].result # tasks[t].result
                 \/ tasks'[t].phase = "Completed" /\ tasks[t].phase # "Completed")
                => /\ tasks[t].assigned_device \in SessionIds
                   /\ resultsRead'[tasks[t].assigned_device].task = t
          /\ \A s \in SessionIds :
                (/\ Live(sessions, s)
                 /\ sessions[s].status = "Occupied"
                 /\ sessions'[s].status # "Occupied"
                 /\ resultsRead'[s].task # None)
                => /\ resultsRead'[s].task \in TaskIds
                   /\ tasks[resultsRead'[s].task].assigned_device = s]_vars

(***************************************************************************)
(* The dispatcher with workers that may refuse a chunk.                    *)
(***************************************************************************)
\* a worker of the honest kind that also remembers the chunks it refused
NackIdleWorker ==
    [ready |-> FALSE, cache |-> {}, task |-> None, name |-> None, received |-> << >>,
     refused |-> {}]

\* one device is connected; TestServer::add_session for its stream
NackInit ==
    /\ sessions = [s \in SessionIds |->
                       IF s = SessionOrder[1] THEN accept_connection ELSE NoSession("absent")]
    /\ tasks = [t \in TaskIds |-> NewTask]
    /\ pc = "maintain"
    /\ tick = 0
    /\ panicked = None
    /\ resultsRead = [s \in SessionIds |-> NoRead]
    /\ cacheHit = {}
    /\ chunkSent = {}
    /\ workerIn = [s \in SessionIds |-> << >>]
    /\ workerOut = [s \in SessionIds |-> << >>]
    /\ workerSt = [s \in SessionIds |-> NackIdleWorker]
    /\ lifeHist = << >>
    /\ OutIdle
    /\ self = None
    /\ queued_tasks = None
    /\ CacheStart /\ AsmIdle /\ CodecIdle /\ FrameIdle

\* the worker takes the next message off its stream; a ServerModule is answered as
\* an honest worker does or refused with ClientAck{Module, index, success = false}
NackWorker(s) ==
    /\ Live(sessions, s)
    /\ workerIn[s] # << >>
    /\ LET m == Head(workerIn[s])
       IN  \/ \E r \in {worker_reply(workerSt[s], m)} :
                 /\ Len(workerOut[s]) + Len(r.out) <= PipeCap
                 /\ workerSt' = [workerSt EXCEPT ![s] = r.st]
                 /\ workerOut' = [workerOut EXCEPT ![s] = @ \o r.out]
           \/ /\ m.type = "ServerModule"
              /\ Len(workerOut[s]) < PipeCap
              /\ workerSt' = [workerSt EXCEPT ![s].refused = @ \cup {<<m.task_id, m.chunk_index>>}]
              /\ workerOut' = [workerOut EXCEPT
                                  ![s] = Append(@, ClientAck(m.task_id, AckModule(m.chunk_index, FALSE)))]
    /\ workerIn' = [workerIn EXCEPT ![s] = Tail(@)]
    /\ UNCHANGED <<sessions, tasks, pc, tick, panicked, resultsRead, histVars, Quiet>>

\* a worker with nothing else to send sends a Heartbeat while the inbound pass waits
\* for its stream, so that no read waits for ever
NackHeartbeat(s) ==
    /\ pc = "inbound"
    /\ Live(sessions, s)
    /\ workerSt[s].ready
    /\ workerOut[s] = << >>
    /\ workerOut' = [workerOut EXCEPT ![s] = <<Heartbeat(FALSE)>>]
    /\ UNCHANGED <<sessions, tasks, pc, tick, panicked, resultsRead, histVars, workerIn, workerSt, Quiet>>

NackNext ==
    \/ HonestTick
    \/ \E s \in SessionIds : Live(sessions, s) /\ HonestHandshake(s)
    \/ \E s \in SessionIds : NackWorker(s)
    \/ \E s \in SessionIds : NackHeartbeat(s)

\* the tick loop keeps running and every worker keeps handling its stream
SpecNack ==
    /\ NackInit
    /\ [][NackNext]_vars
    /\ WF_vars(HonestTick)
    /\ \A s \in SessionIds :
          /\ WF_vars(Live(sessions, s) /\ HonestHandshake(s))
          /\ WF_vars(NackWorker(s))
          /\ WF_vars(NackHeartbeat(s))

\* the refusal of chunk i of task t by the worker of session s has been read
Refused(t, i, s) ==
    /\ <<t, i>> \in workerSt[s].refused
    /\ tasks[t].phase = "Distributing"
    /\ tasks[t].assigned_device = s
    /\ tasks[t].transfer.present /\ tasks[t].transfer.state = "Transferring"
    /\ \A k \in 1..Len(workerOut[s]) : workerOut[s][k] # ClientAck(t, AckModule(i, FALSE))
    /\ \A k \in 1..Len(workerIn[s]) : workerIn[s][k].type # "ServerModule"

\* chunk i of task t is on its way to the worker of session s
OnItsWay(t, i, s) ==
    \/ \E k \in 1..Len(sessions[s].message_queue) :
          LET x == sessions[s].message_queue[k]
          IN  x.type = "ServerModule" /\ x.task_id = t /\ x.chunk_index = i
    \/ \E k \in 1..Len(workerIn[s]) :
          LET x == workerIn[s][k]
          IN  x.type = "ServerModule" /\ x.task_id = t /\ x.chunk_index = i

\* C39: if a ClientAck{Module, idx, success = false} arrives for a transfer in
\* sub-state Transferring while its session stays alive, the task does not stay
\* Distributing for ever: chunk idx is eventually sent again or the task
\* eventually becomes Failed
C39_RefusedChunkResentOrFailed ==
    \A t \in TaskIds, s \in SessionIds : \A i \in 0..(TotalChunks - 1) :
        Refused(t, i, s) ~> \/ OnItsWay(t, i, s)
                            \/ tasks[t].phase = "Failed"
                            \/ ~Live(sessions, s)

\* the pass of process_io went as `read` and `write` say (process_io changes the
\* events, the outgoing buffer and the state and nothing else)
IsProcessIo(read, write) ==
    /\ self.at = "process_io"
    /\ self.outgoing = << >> => write = "Ok"
    /\ \E r \in {process_io(self, read, write)} :
          /\ self'.events = r.events
          /\ self'.read = r.read
          /\ self'.outgoing = r.outgoing
          /\ self'.state.kind = r.state.kind
    /\ self'.at = IF write = "ErrAlways" THEN "write_loop" ELSE "process_events"

\* what a write loop that is left at the first error or zero write can do: write
\* everything ("Ok"), stop at a zero write with the unsent bytes kept ("Zero"), or stop
\* at an error with the unsent bytes kept and the state Failed (which is what
\* "ErrZero" leaves behind)
LeftAtFirstFailure == {"Ok", "Zero", "ErrZero"}

\* C40: one iteration of the worker loop always terminates: process_io hands over to
\* process_events, and its outgoing-drain loop is left at the first write that returns
\* an error or zero bytes, with the unsent bytes still in the outgoing buffer and, on
\* an error, the state Failed (every step of the loop changes self.at, which the
\* subscript names first)
C40_WriteLoopExits ==
    [][self.at = "process_io" =>
          /\ self'.at = "process_events"
          /\ \E read \in WorkerReads, write \in LeftAtFirstFailure :
                IsProcessIo(read, write)]_<<self.at, vars>>
====
